---- MODULE Spec2Model ----
(***************************************************************************)
(* Salon dashboard: appointment ledger, slot availability and identifier   *)
(* generation of booking_tab.py, staff_management_tab.py and app.py.       *)
(*                                                                         *)
(* A text value (str) is a sequence of one-character strings, so that      *)
(* formatting, parsing, str.replace and the lexicographic order of str are *)
(* computed as Python computes them.  A missing cell (NaN) is NaN.         *)
(***************************************************************************)
EXTENDS Integers, Sequences, FiniteSets, TLC

VARIABLES appointments, staff, leave, ret, sessions, cache, written, files, arg

vars == <<appointments, staff, leave, ret, sessions, cache, written, files, arg>>

\* what the ledger operations called within one script run never touch: the
\* other sessions, the files of the sheet connector and the table handed to a
\* query
others == <<sessions, files, arg>>

\* cache is the st.cache_data store: cached function -> [value, age]; written
\* is the table last handed to a successful to_csv, by file
NoOthers ==
    /\ sessions = <<>>
    /\ cache = <<>>
    /\ written = <<>>
    /\ files = <<>>
    /\ arg = <<>>

\* ------------------------------------------------------------------ text

NaN == "NaN"

DigitChars == <<"0", "1", "2", "3", "4", "5", "6", "7", "8", "9">>

DigitSet == {DigitChars[d] : d \in 1..10}

IsDigit(c) == c \in DigitSet

DigitValues == [c \in DigitSet |-> (CHOOSE d \in 1..10 : DigitChars[d] = c) - 1]

DigitVal(c) == DigitValues[c]

\* ord(c) for the characters that occur in the tables
Ord(c) ==
    IF IsDigit(c) THEN 48 + DigitVal(c)
    ELSE CASE c = ":" -> 58
           [] c = "A" -> 65
           [] c = "B" -> 66
           [] c = "F" -> 70
           [] c = "L" -> 76
           [] c = "P" -> 80
           [] c = "S" -> 83
           [] c = "T" -> 84
           [] c = "V" -> 86
           [] c = "X" -> 88

\* a < b for str: first differing character decides, a proper prefix is smaller
RECURSIVE StrLess(_, _)
StrLess(a, b) ==
    IF b = <<>> THEN FALSE
    ELSE IF a = <<>> THEN TRUE
    ELSE IF Head(a) = Head(b) THEN StrLess(Tail(a), Tail(b))
    ELSE Ord(Head(a)) < Ord(Head(b))

\* str(n), f"{n}" for n >= 0
RECURSIVE DecStr(_)
DecStr(n) ==
    IF n < 10 THEN <<DigitChars[n + 1]>>
    ELSE Append(DecStr(n \div 10), DigitChars[(n % 10) + 1])

\* str.zfill(w), f"{n:0wd}": left-pad with "0" to at least w characters
RECURSIVE ZFill(_, _)
ZFill(s, w) == IF Len(s) >= w THEN s ELSE ZFill(<<"0">> \o s, w)

\* int(s) succeeds on a non-empty run of decimal digits
IntOk(s) == Len(s) > 0 /\ \A i \in 1..Len(s) : IsDigit(s[i])

\* the value of the first n digits of s
RECURSIVE IntOfFirst(_, _)
IntOfFirst(s, n) == IF n = 0 THEN 0 ELSE 10 * IntOfFirst(s, n - 1) + DigitVal(s[n])

IntOf(s) == IntOfFirst(s, Len(s))

StartsWith(s, p) == Len(s) >= Len(p) /\ SubSeq(s, 1, Len(p)) = p

\* s.replace(sub, ""): every non-overlapping occurrence, left to right
RECURSIVE StrRemove(_, _)
StrRemove(s, sub) ==
    IF Len(s) < Len(sub) THEN s
    ELSE IF StartsWith(s, sub) THEN StrRemove(SubSeq(s, Len(sub) + 1, Len(s)), sub)
    ELSE <<Head(s)>> \o StrRemove(Tail(s), sub)

\* s.find(sep) from position i on, 0 when sep does not occur
RECURSIVE Find(_, _, _)
Find(s, sep, i) ==
    IF i > Len(s) THEN 0 ELSE IF s[i] = sep THEN i ELSE Find(s, sep, i + 1)

\* s.split(sep) for a one-character separator
RECURSIVE Split(_, _)
Split(s, sep) ==
    LET k == Find(s, sep, 1)
    IN IF k = 0 THEN <<s>>
       ELSE <<SubSeq(s, 1, k - 1)>> \o Split(SubSeq(s, k + 1, Len(s)), sep)

\* ------------------------------------------------------- appointments
\* An appointment row: id (Appointment ID), emp (Preferred Employee), date
\* (Appointment Date, a day number), slot (Time Slot), dur (Duration, minutes),
\* status (Status).

Returns(v) == [raised |-> FALSE, value |-> v]

Raises == [raised |-> TRUE, value |-> <<>>]

\* ActiveStatus with cancelled appointments still blocking
ActiveStatus_all == {"Confirmed", "Pending", "Cancelled"}

\* Status values that block a slot: isin(["Confirmed", "Pending"])
ActiveStatus == {"Confirmed", "Pending"}

\* a, b = map(int, s.split(":")): ok is FALSE where Python raises, else
\* minutes is a * 60 + b
ParseHM(s) ==
    LET parts == Split(s, ":")
    IN IF Len(parts) = 2 /\ IntOk(parts[1]) /\ IntOk(parts[2])
       THEN [ok |-> TRUE, minutes |-> IntOf(parts[1]) * 60 + IntOf(parts[2])]
       ELSE [ok |-> FALSE, minutes |-> 0]

\* A cell read_csv found empty is NaN: the row record has no such field.
IsNa(row, field) == field \notin DOMAIN row

\* OverlapLoopTab with closed intervals: touching endpoints overlap
RECURSIVE OverlapLoopTab_closed(_, _, _, _)
OverlapLoopTab_closed(rows, i, req_start, req_end) ==
    IF i > Len(rows) THEN Returns(FALSE)
    ELSE IF IsNa(rows[i], "slot") THEN Raises
    ELSE LET exist == ParseHM(rows[i].slot)
             exist_start == exist.minutes
             exist_end == exist_start + rows[i].dur
         IN IF ~exist.ok \/ IsNa(rows[i], "dur") THEN Raises
            ELSE IF req_start <= exist_end /\ req_end >= exist_start
            THEN Returns(TRUE)
            ELSE OverlapLoopTab_closed(rows, i + 1, req_start, req_end)

\* the for loop of booking_tab.check_overlap over the filtered rows:
\* row["Time Slot"].split(":") of a NaN is an AttributeError, the unpacking or
\* int() of other text a ValueError, timedelta(minutes=NaN) a ValueError
RECURSIVE OverlapLoopTab(_, _, _, _)
OverlapLoopTab(rows, i, req_start, req_end) ==
    IF i > Len(rows) THEN Returns(FALSE)
    ELSE IF IsNa(rows[i], "slot") THEN Raises
    ELSE LET exist == ParseHM(rows[i].slot)
             exist_start == exist.minutes
             exist_end == exist_start + rows[i].dur
         IN IF ~exist.ok \/ IsNa(rows[i], "dur") THEN Raises
            ELSE IF req_start < exist_end /\ req_end > exist_start
            THEN Returns(TRUE)
            ELSE OverlapLoopTab(rows, i + 1, req_start, req_end)

\* booking_tab.check_overlap on the table load_appointments() returns
check_overlap_tab(df, employee, date, time_slot, duration, exclude_id) ==
    LET Same(r) == r.emp = employee /\ r.date = date /\ r.status \in ActiveStatus
        Other(r) == r.id /= exclude_id
        by_key == SelectSeq(df, Same)
        df_filtered == IF exclude_id /= <<>> THEN SelectSeq(by_key, Other) ELSE by_key
        req == ParseHM(time_slot)
    IN IF df_filtered = <<>> THEN Returns(FALSE)
       ELSE IF ~req.ok THEN Raises
       ELSE OverlapLoopTab(df_filtered, 1, req.minutes, req.minutes + duration)

\* OverlapLoopApp comparing the two starts instead of end against start
RECURSIVE OverlapLoopApp_starts(_, _, _, _)
OverlapLoopApp_starts(rows, i, req_start, req_end) ==
    IF i > Len(rows) THEN Returns(FALSE)
    ELSE IF IsNa(rows[i], "slot") THEN OverlapLoopApp_starts(rows, i + 1, req_start, req_end)
    ELSE LET exist == ParseHM(rows[i].slot)
             exist_start == exist.minutes
             exist_end == exist_start + rows[i].dur
         IN IF ~exist.ok THEN OverlapLoopApp_starts(rows, i + 1, req_start, req_end)
            ELSE IF IsNa(rows[i], "dur") THEN Raises
            ELSE IF req_start < exist_end /\ req_start > exist_start
            THEN Returns(TRUE)
            ELSE OverlapLoopApp_starts(rows, i + 1, req_start, req_end)

\* the for loop of app.check_overlap: an unparsable Time Slot (str(NaN) is
\* "nan") is skipped; int(row.get('Duration', 30)) is outside the try and
\* raises ValueError on NaN
RECURSIVE OverlapLoopApp(_, _, _, _)
OverlapLoopApp(rows, i, req_start, req_end) ==
    IF i > Len(rows) THEN Returns(FALSE)
    ELSE IF IsNa(rows[i], "slot") THEN OverlapLoopApp(rows, i + 1, req_start, req_end)
    ELSE LET exist == ParseHM(rows[i].slot)
             exist_start == exist.minutes
             exist_end == exist_start + rows[i].dur
         IN IF ~exist.ok THEN OverlapLoopApp(rows, i + 1, req_start, req_end)
            ELSE IF IsNa(rows[i], "dur") THEN Raises
            ELSE IF req_start < exist_end /\ req_end > exist_start
            THEN Returns(TRUE)
            ELSE OverlapLoopApp(rows, i + 1, req_start, req_end)

\* app.check_overlap
check_overlap_app(appts, employee, date, time_slot, duration, exclude_id) ==
    IF appts = <<>> THEN Returns(FALSE)
    ELSE LET Same(r) == r.emp = employee /\ r.date = date /\ r.status \in ActiveStatus
             Other(r) == r.id /= exclude_id
             by_key == SelectSeq(appts, Same)
             filtered == IF exclude_id /= <<>> THEN SelectSeq(by_key, Other) ELSE by_key
             req == ParseHM(time_slot)
         IN IF filtered = <<>> THEN Returns(FALSE)
            ELSE IF ~req.ok THEN Raises
            ELSE OverlapLoopApp(filtered, 1, req.minutes, req.minutes + duration)

start_hour == 9

end_hour == 20

SlotMinutes == <<0, 30>>

\* f"{hour:02d}:{minute:02d}"
SlotLabel(hour, minute) == ZFill(DecStr(hour), 2) \o <<":">> \o ZFill(DecStr(minute), 2)

\* SlotLoop stopping one slot early: range(start_hour, end_hour) loses 19:30
RECURSIVE SlotLoop_short(_, _, _, _, _, _, _)
SlotLoop_short(impl, df, employee, date, duration, k, all_slots) ==
    IF k >= (end_hour - start_hour) * Len(SlotMinutes) - 1 THEN Returns(all_slots)
    ELSE LET hour == start_hour + (k \div Len(SlotMinutes))
             minute == SlotMinutes[(k % Len(SlotMinutes)) + 1]
             slot == SlotLabel(hour, minute)
             hit == IF impl = "tab"
                    THEN check_overlap_tab(df, employee, date, slot, duration, <<>>)
                    ELSE check_overlap_app(df, employee, date, slot, duration, <<>>)
         IN IF hit.raised THEN Raises
            ELSE SlotLoop_short(impl, df, employee, date, duration, k + 1,
                                IF hit.value THEN all_slots ELSE Append(all_slots, slot))

\* SlotLoop running through the closing hour: range(start_hour, end_hour + 1)
RECURSIVE SlotLoop_late(_, _, _, _, _, _, _)
SlotLoop_late(impl, df, employee, date, duration, k, all_slots) ==
    IF k >= (end_hour - start_hour + 1) * Len(SlotMinutes) THEN Returns(all_slots)
    ELSE LET hour == start_hour + (k \div Len(SlotMinutes))
             minute == SlotMinutes[(k % Len(SlotMinutes)) + 1]
             slot == SlotLabel(hour, minute)
             hit == IF impl = "tab"
                    THEN check_overlap_tab(df, employee, date, slot, duration, <<>>)
                    ELSE check_overlap_app(df, employee, date, slot, duration, <<>>)
         IN IF hit.raised THEN Raises
            ELSE SlotLoop_late(impl, df, employee, date, duration, k + 1,
                               IF hit.value THEN all_slots ELSE Append(all_slots, slot))

\* the nested loops of get_available_slots; impl chooses the check_overlap used
RECURSIVE SlotLoop(_, _, _, _, _, _, _)
SlotLoop(impl, df, employee, date, duration, k, all_slots) ==
    IF k >= (end_hour - start_hour) * Len(SlotMinutes) THEN Returns(all_slots)
    ELSE LET hour == start_hour + (k \div Len(SlotMinutes))
             minute == SlotMinutes[(k % Len(SlotMinutes)) + 1]
             slot == SlotLabel(hour, minute)
             hit == IF impl = "tab"
                    THEN check_overlap_tab(df, employee, date, slot, duration, <<>>)
                    ELSE check_overlap_app(df, employee, date, slot, duration, <<>>)
         IN IF hit.raised THEN Raises
            ELSE SlotLoop(impl, df, employee, date, duration, k + 1,
                          IF hit.value THEN all_slots ELSE Append(all_slots, slot))

get_available_slots_tab(df, employee, date, duration) ==
    SlotLoop("tab", df, employee, date, duration, 0, <<>>)

get_available_slots_app(appointments_df, employee, date, duration) ==
    SlotLoop("app", appointments_df, employee, date, duration, 0, <<>>)

\* ------------------------------------------------------ identifiers

APT == <<"A", "P", "T">>

STF == <<"S", "T", "F">>

LV == <<"L", "V">>

\* Series.max() of a column of str: the greatest in lexicographic order
StrMax(S) == CHOOSE s \in S : \A t \in S : ~StrLess(s, t)

IntMax(S) == CHOOSE n \in S : \A m \in S : m <= n

Column(df) == {df[i].id : i \in 1..Len(df)}

\* int(df[col].str.replace(prefix, "").max()) + 1, or the ValueError of int()
NextAfterStrMax(df, prefix) ==
    LET last == StrMax({StrRemove(x, prefix) : x \in Column(df)})
    IN IF IntOk(last) THEN Returns(IntOf(last) + 1) ELSE Raises

\* max(int(str(x).replace(prefix, "")) for x in col if str(x).startswith(prefix)) + 1;
\* int() of a non-numeric suffix and max() of nothing raise ValueError
NextAfterIntMax(df, prefix) ==
    LET kept == {StrRemove(x, prefix) : x \in {y \in Column(df) : StartsWith(y, prefix)}}
    IN IF kept = {} \/ \E x \in kept : ~IntOk(x) THEN Raises
       ELSE Returns(IntMax({IntOf(x) : x \in kept}) + 1)

\* "Generate new ID" of booking_tab.save_booking
save_booking_tab_new_id(df) ==
    IF df = <<>> THEN Returns(APT \o DecStr(1000))
    ELSE LET n == NextAfterStrMax(df, APT)
         IN IF n.raised THEN Raises ELSE Returns(APT \o DecStr(n.value))

\* new_id of app.save_booking: the except branch falls back to APT1000
save_booking_app_new_id(ap) ==
    IF ap = <<>> THEN Returns(APT \o DecStr(1000))
    ELSE LET n == NextAfterIntMax(ap, APT)
         IN IF n.raised THEN Returns(APT \o DecStr(1000))
            ELSE Returns(APT \o DecStr(n.value))

\* "Generate new ID" of staff_management_tab.add_staff
add_staff_new_id(df) ==
    IF df = <<>> THEN Returns(STF \o <<"0", "0", "1">>)
    ELSE LET n == NextAfterStrMax(df, STF)
         IN IF n.raised THEN Raises ELSE Returns(STF \o ZFill(DecStr(n.value), 3))

\* new_id of the add_staff_form of app.py
add_staff_form_new_id(s) ==
    IF s = <<>> THEN Returns(STF \o <<"0", "0", "1">>)
    ELSE LET n == NextAfterIntMax(s, STF)
         IN IF n.raised THEN Returns(STF \o <<"0", "0", "1">>)
            ELSE Returns(STF \o ZFill(DecStr(n.value), 3))

\* "Generate new ID" of staff_management_tab.add_leave_record
add_leave_record_new_id(df) ==
    IF df = <<>> THEN Returns(LV \o DecStr(1000))
    ELSE LET n == NextAfterStrMax(df, LV)
         IN IF n.raised THEN Raises ELSE Returns(LV \o DecStr(n.value))

\* ------------------------------------------------------------ cache
\* @st.cache_data(ttl=60): an entry answers the calls made less than ttl after
\* it was stored; st.cache_data.clear() drops every entry.

ttl == 60

\* the functions decorated with a bare @st.cache_data: their entries have no
\* time to live
NoTtl == {"load_services", "load_employees", "load_branches"}

Fresh(key) == key \in DOMAIN cache /\ (key \in NoTtl \/ cache[key].age < ttl)

\* what the cached function `key` returns when the file holds `stored`
Cached(key, stored) == IF Fresh(key) THEN cache[key].value ELSE stored

\* the cache after that call
Filled(key, stored) ==
    IF Fresh(key) THEN cache ELSE (key :> [value |-> stored, age |-> 0]) @@ cache

Cleared == <<>>

\* -------------------------------------------------------------- csv
\* A table variable holds what pd.read_csv and the loader's pd.to_datetime make
\* of the file.  DataFrame.to_csv writes an int and a date as text and a
\* missing cell as the empty field; read_csv turns a column of digits back
\* into int64 and the empty field into NaN.

IntFields == {"date", "dur"}

to_csv_cell(f, v) ==
    IF f \in IntFields THEN DecStr(v)
    ELSE IF f = "status" /\ v = NaN THEN "" ELSE v

read_csv_cell(f, c) ==
    IF f \in IntFields THEN (IF IntOk(c) THEN IntOf(c) ELSE c)
    ELSE IF f = "status" /\ c = "" THEN NaN ELSE c

to_csv(df) == [i \in 1..Len(df) |-> [f \in DOMAIN df[i] |-> to_csv_cell(f, df[i][f])]]

read_csv(file) ==
    [i \in 1..Len(file) |-> [f \in DOMAIN file[i] |-> read_csv_cell(f, file[i][f])]]

\* WriteAppointments without st.cache_data.clear()
WriteAppointments_uncleared(df) ==
    /\ appointments' = read_csv(to_csv(df))
    /\ cache' = cache
    /\ written' = ("appointments" :> df) @@ written

\* df.to_csv("appointments.csv", index=False); st.cache_data.clear()
WriteAppointments(df) ==
    /\ appointments' = read_csv(to_csv(df))
    /\ cache' = Cleared
    /\ written' = ("appointments" :> df) @@ written

\* df.to_csv("staff.csv", index=False); st.cache_data.clear()
WriteStaff(df) ==
    /\ staff' = read_csv(to_csv(df))
    /\ cache' = Cleared
    /\ written' = ("staff" :> df) @@ written

\* df.to_csv("leave_records.csv", index=False); st.cache_data.clear()
WriteLeave(df) ==
    /\ leave' = read_csv(to_csv(df))
    /\ cache' = Cleared
    /\ written' = ("leave" :> df) @@ written

\* ----------------------------------------------------------- ledger
\* data is the payload dict: a row without its identifier; a key the payload
\* does not carry is NaN in the appended row.

OpRecord(op, impl, data, out) ==
    [op |-> op, impl |-> impl, data |-> data, raised |-> out.raised, value |-> out.value]

\* AppointmentRow with the status overwritten the way add_leave_record does
AppointmentRow_forced(id, data) ==
    [id |-> id, emp |-> data.emp, date |-> data.date, slot |-> data.slot,
     dur |-> data.dur, status |-> "Confirmed"]

AppointmentRow(id, data) ==
    [id |-> id, emp |-> data.emp, date |-> data.date, slot |-> data.slot,
     dur |-> data.dur, status |-> data.status]

\* booking_tab.save_booking(data)
save_booking_tab(data) ==
    LET df == Cached("load_appointments", appointments)
        new_id == save_booking_tab_new_id(df)
    IN /\ ret' = OpRecord("save_booking", "tab", data, new_id)
       /\ IF new_id.raised
          THEN /\ cache' = Filled("load_appointments", appointments)
               /\ UNCHANGED <<appointments, written>>
          ELSE WriteAppointments(Append(df, AppointmentRow(new_id.value, data)))
       /\ UNCHANGED <<staff, leave, others>>

\* app.save_booking(appointments_df, data), appointments_df being the
\* load_csv("appointments.csv") of the script run
save_booking_app(data) ==
    LET ap == Cached("load_csv(appointments.csv)", appointments)
        new_id == save_booking_app_new_id(ap)
    IN /\ ret' = OpRecord("save_booking", "app", data, new_id)
       /\ WriteAppointments(Append(ap, AppointmentRow(new_id.value, data)))
       /\ UNCHANGED <<staff, leave, others>>

\* df.at[idx, key] = value for every key of data
Updated(row, data) ==
    [f \in DOMAIN row |-> IF f \in DOMAIN data THEN data[f] ELSE row[f]]

\* booking_tab.update_booking(appointment_id, data): index[0] is the first row
\* with that id, IndexError when there is none
update_booking(appointment_id, data) ==
    LET df == Cached("load_appointments", appointments)
        hits == {i \in 1..Len(df) : df[i].id = appointment_id}
    IN IF hits = {}
       THEN /\ ret' = [op |-> "update_booking", impl |-> "tab", data |-> data,
                       raised |-> TRUE, value |-> appointment_id]
            /\ cache' = Filled("load_appointments", appointments)
            /\ UNCHANGED <<appointments, written, staff, leave, others>>
       ELSE LET idx == CHOOSE i \in hits : \A j \in hits : i <= j
            IN /\ WriteAppointments([df EXCEPT ![idx] = Updated(df[idx], data)])
               /\ ret' = [op |-> "update_booking", impl |-> "tab", data |-> data,
                          raised |-> FALSE, value |-> appointment_id]
               /\ UNCHANGED <<staff, leave, others>>

\* cancel_booking that removes the rows instead of marking them
cancel_booking_removing(appointment_id) ==
    LET df == Cached("load_appointments", appointments)
    IN /\ WriteAppointments(SelectSeq(df, LAMBDA r : r.id /= appointment_id))
       /\ ret' = [op |-> "cancel_booking", impl |-> "tab", data |-> <<>>,
                  raised |-> FALSE, value |-> appointment_id]
       /\ UNCHANGED <<staff, leave, others>>

\* booking_tab.cancel_booking(appointment_id)
cancel_booking(appointment_id) ==
    LET df == Cached("load_appointments", appointments)
    IN /\ WriteAppointments(
              [i \in 1..Len(df) |->
                  IF df[i].id = appointment_id
                  THEN [df[i] EXCEPT !.status = "Cancelled"]
                  ELSE df[i]])
       /\ ret' = [op |-> "cancel_booking", impl |-> "tab", data |-> <<>>,
                  raised |-> FALSE, value |-> appointment_id]
       /\ UNCHANGED <<staff, leave, others>>

\* A staff row: id (Staff ID), name (Name), status (Status).
StaffRow(id, data) == [id |-> id, name |-> data.name, status |-> data.status]

\* staff_management_tab.add_staff(data)
add_staff(data) ==
    LET df == Cached("load_staff", staff)
        new_id == add_staff_new_id(df)
    IN /\ ret' = OpRecord("add_staff", "tab", data, new_id)
       /\ IF new_id.raised
          THEN /\ cache' = Filled("load_staff", staff)
               /\ UNCHANGED <<staff, written>>
          ELSE WriteStaff(Append(df, StaffRow(new_id.value, data)))
       /\ UNCHANGED <<appointments, leave, others>>

\* the submit branch of the add_staff_form of app.py, staff_df being the
\* load_csv("staff.csv") of the script run
add_staff_form(data) ==
    LET staff_df == Cached("load_csv(staff.csv)", staff)
        new_id == add_staff_form_new_id(staff_df)
    IN /\ ret' = OpRecord("add_staff", "app", data, new_id)
       /\ WriteStaff(Append(staff_df, StaffRow(new_id.value, data)))
       /\ UNCHANGED <<appointments, leave, others>>

\* staff_management_tab.update_staff(staff_id, data): IndexError when no row
\* carries staff_id
update_staff(staff_id, data) ==
    LET df == Cached("load_staff", staff)
        hits == {i \in 1..Len(df) : df[i].id = staff_id}
    IN IF hits = {}
       THEN /\ ret' = [op |-> "update_staff", impl |-> "tab", data |-> data,
                       raised |-> TRUE, value |-> staff_id]
            /\ cache' = Filled("load_staff", staff)
            /\ UNCHANGED <<staff, written, appointments, leave, others>>
       ELSE LET idx == CHOOSE i \in hits : \A j \in hits : i <= j
            IN /\ WriteStaff([df EXCEPT ![idx] = Updated(df[idx], data)])
               /\ ret' = [op |-> "update_staff", impl |-> "tab", data |-> data,
                          raised |-> FALSE, value |-> staff_id]
               /\ UNCHANGED <<appointments, leave, others>>

\* staff_management_tab.delete_staff(staff_id)
delete_staff(staff_id) ==
    LET df == Cached("load_staff", staff)
    IN /\ WriteStaff(
              [i \in 1..Len(df) |->
                  IF df[i].id = staff_id
                  THEN [df[i] EXCEPT !.status = "Resigned"]
                  ELSE df[i]])
       /\ ret' = [op |-> "delete_staff", impl |-> "tab", data |-> <<>>,
                  raised |-> FALSE, value |-> staff_id]
       /\ UNCHANGED <<appointments, leave, others>>

\* A leave row: id (Leave ID), name (Staff Name), status (Status).
\* staff_management_tab.add_leave_record(data): data["Status"] = "Pending"
add_leave_record(data) ==
    LET df == Cached("load_leave_records", leave)
        new_id == add_leave_record_new_id(df)
    IN /\ ret' = OpRecord("add_leave_record", "tab", data, new_id)
       /\ IF new_id.raised
          THEN /\ cache' = Filled("load_leave_records", leave)
               /\ UNCHANGED <<leave, written>>
          ELSE WriteLeave(Append(df, [id |-> new_id.value, name |-> data.name,
                                      status |-> "Pending"]))
       /\ UNCHANGED <<appointments, staff, others>>

\* ----------------------------------------------------- cached loaders
\* Each returns [value, cache]: what the call returns and the cache after it.

CachedCall(key, stored) == [value |-> Cached(key, stored), cache |-> Filled(key, stored)]

load_appointments == CachedCall("load_appointments", appointments)

load_staff == CachedCall("load_staff", staff)

load_leave_records == CachedCall("load_leave_records", leave)

\* app.load_csv("appointments.csv")
load_csv == CachedCall("load_csv(appointments.csv)", appointments)

\* sheets_connector.get_sheet_data(sheet_name): the file in the current
\* directory, else the one under data/, else an empty frame
get_sheet_data ==
    CachedCall("get_sheet_data",
               IF files.cwd.exists THEN files.cwd.rows
               ELSE IF files.data.exists THEN files.data.rows
               ELSE <<>>)

\* ------------------------------------------------------ failing writes
\* to_csv opens the file for writing, which empties it, then writes the rows.
\* It can succeed ("ok"), fail on opening with the file untouched ("refused"),
\* or fail part way with the header and some of the rows written ("torn").

WriteOutcomes == {"ok", "refused", "torn"}

\* the rows a torn write of df can leave
Torn(df) == {SubSeq(df, 1, k) : k \in 0..(Len(df) - 1)}

Without(f, key) == [k \in DOMAIN f \ {key} |-> f[k]]

\* save_csv without its except branch: the failure is not caught
save_csv_uncaught(df, outcome, left) ==
    /\ ret' = [op |-> "save_csv", raised |-> outcome /= "ok", value |-> outcome = "ok",
               df |-> df, outcome |-> outcome, before |-> appointments]
    /\ CASE outcome = "ok" -> WriteAppointments(df)
         [] outcome = "refused" -> UNCHANGED <<appointments, cache, written>>
         [] outcome = "torn" ->
                /\ appointments' = read_csv(to_csv(left))
                /\ written' = Without(written, "appointments")
                /\ UNCHANGED cache
    /\ UNCHANGED <<staff, leave, others>>

\* app.save_csv(df, "appointments.csv"); left is what a torn write leaves
save_csv(df, outcome, left) ==
    /\ ret' = [op |-> "save_csv", raised |-> FALSE, value |-> outcome = "ok",
               df |-> df, outcome |-> outcome, before |-> appointments]
    /\ CASE outcome = "ok" -> WriteAppointments(df)
         [] outcome = "refused" -> UNCHANGED <<appointments, cache, written>>
         [] outcome = "torn" ->
                /\ appointments' = read_csv(to_csv(left))
                /\ written' = Without(written, "appointments")
                /\ UNCHANGED cache
    /\ UNCHANGED <<staff, leave, others>>

\* the file after a to_csv of df with that outcome
FileAfter(file, df, outcome, left) ==
    CASE outcome = "ok" -> [exists |-> TRUE, rows |-> read_csv(to_csv(df))]
      [] outcome = "refused" -> file
      [] outcome = "torn" -> [exists |-> TRUE, rows |-> read_csv(to_csv(left))]

\* sheets_connector.save_sheet_data(sheet_name, dataframe): the current
\* directory first, data/ when that raises
save_sheet_data(dataframe, first, second, left) ==
    LET cwd == FileAfter(files.cwd, dataframe, first, left)
        data == IF first = "ok" THEN files.data
                ELSE FileAfter(files.data, dataframe, second, left)
        saved == first = "ok" \/ second = "ok"
    IN /\ ret' = [op |-> "save_sheet_data", raised |-> FALSE, value |-> saved,
                  df |-> dataframe, first |-> first,
                  second |-> IF first = "ok" THEN "none" ELSE second,
                  before |-> files]
       /\ files' = [cwd |-> cwd, data |-> data]
       /\ cache' = IF saved THEN Cleared ELSE cache
       /\ written' = IF saved THEN ("sheet" :> dataframe) @@ written
                     ELSE Without(written, "sheet")
       /\ UNCHANGED <<appointments, staff, leave, sessions, arg>>

\* the payload dict of a booking
Row(employee, date, slot, dur, status) ==
    [emp |-> employee, date |-> date, slot |-> slot, dur |-> dur, status |-> status]

\* ------------------------------------------------------ booking forms
\* A form duration is [n, numpy]: the Duration cell of the selected service is
\* a numpy.int64 (numpy TRUE), the default 30 of a service missing from the
\* catalog is an int.  timedelta(minutes=duration) raises TypeError on a
\* numpy.int64; booking_tab.check_overlap reaches it once df_filtered is not
\* empty, with the first slot asked for.
get_available_slots_form_tab(df, employee, date, duration) ==
    IF duration.numpy /\ \E i \in 1..Len(df) :
           df[i].emp = employee /\ df[i].date = date /\ df[i].status \in ActiveStatus
    THEN Raises
    ELSE get_available_slots_tab(df, employee, date, duration.n)

\* booking_tab.render_booking_form, submitted with one of the slots the select
\* box offers (those of `choices` the model follows): nothing is saved when the
\* slots cannot be computed or none is offered
render_booking_form(employee, date, duration, choices) ==
    \E available_slots \in {get_available_slots_form_tab(appointments, employee, date, duration)} :
       /\ ~available_slots.raised
       /\ \E i \in 1..Len(available_slots.value) :
              /\ available_slots.value[i] \in choices
              /\ save_booking_tab(Row(employee, date, available_slots.value[i],
                                      duration.n, "Confirmed"))

\* the new_booking_form of app.py: duration is int(...) of the catalog cell
\* The form without the slot list: any slot of the choices is saved.
new_booking_form_unchecked(employee, date, duration, choices) ==
    \E slot \in choices :
        save_booking_app(Row(employee, date, slot, duration.n, "Confirmed"))

new_booking_form(employee, date, duration, choices) ==
    \E available_slots \in {get_available_slots_app(appointments, employee, date, duration.n)} :
       /\ ~available_slots.raised
       /\ \E i \in 1..Len(available_slots.value) :
              /\ available_slots.value[i] \in choices
              /\ save_booking_app(Row(employee, date, available_slots.value[i],
                                      duration.n, "Confirmed"))

\* ------------------------------------------------------------ inputs

AptId(n) == <<"A", "P", "T">> \o DecStr(n)

Employees == {"Asha", "Ravi"}

Statuses == {"Confirmed", "Pending", "Completed", "Cancelled"}

\* rows per table of the slot-engine specification
MaxSlotRows == 2

\* (employee, date) asked for by the calls; stored rows carry them too
RowKeys == {<<"Asha", 1>>, <<"Ravi", 1>>, <<"Asha", 2>>}

\* (Time Slot, Duration) of the stored rows
RowSpans == {<<SlotLabel(9, 0), 30>>, <<SlotLabel(9, 0), 60>>, <<SlotLabel(9, 30), 0>>}

CallSlots == {SlotLabel(9, 0), SlotLabel(9, 30)}

CallDurations == {0, 30, 60}

\* stored rows before their identifier: every span and status for ("Asha", 1),
\* one Confirmed hour-long booking for each other key
BareRows ==
    {Row("Asha", 1, sd[1], sd[2], st) : sd \in RowSpans, st \in Statuses}
        \cup {Row(k[1], k[2], SlotLabel(9, 0), 60, "Confirmed") : k \in RowKeys \ {<<"Asha", 1>>}}

\* a row of a table whose identifiers the ledger assigned: APT1000, APT1001, ...
WithId(r, i) ==
    [id |-> AptId(1000 + i - 1), emp |-> r.emp, date |-> r.date, slot |-> r.slot,
     dur |-> r.dur, status |-> r.status]

SlotTables ==
    UNION {{[i \in 1..n |-> WithId(f[i], i)] : f \in [1..n -> BareRows]} : n \in 0..MaxSlotRows}

ExcludeIds == {<<>>, AptId(1000), AptId(1001)}

\* ------------------------------------------- slot engine, one call a step

\* each behaviour is one call on the table drawn
InitSlots ==
    /\ appointments \in SlotTables
    /\ staff = <<>>
    /\ leave = <<>>
    /\ ret = [op |-> "none"]
    /\ NoOthers

CallRecord(op, impl, employee, date, time_slot, duration, exclude_id, out) ==
    [op |-> op, impl |-> impl, employee |-> employee, date |-> date,
     time_slot |-> time_slot, duration |-> duration, exclude_id |-> exclude_id,
     raised |-> out.raised, value |-> out.value]

CheckOverlapTab ==
    /\ ret.op = "none"
    /\ \E k \in RowKeys, s \in CallSlots, dur \in CallDurations, x \in ExcludeIds :
        /\ ret' = CallRecord("check_overlap", "tab", k[1], k[2], s, dur, x,
                             check_overlap_tab(appointments, k[1], k[2], s, dur, x))
        /\ UNCHANGED <<appointments, staff, leave, cache, written, others>>

CheckOverlapApp ==
    /\ ret.op = "none"
    /\ \E k \in RowKeys, s \in CallSlots, dur \in CallDurations, x \in ExcludeIds :
        /\ ret' = CallRecord("check_overlap", "app", k[1], k[2], s, dur, x,
                             check_overlap_app(appointments, k[1], k[2], s, dur, x))
        /\ UNCHANGED <<appointments, staff, leave, cache, written, others>>

GetAvailableSlotsTab ==
    /\ ret.op = "none"
    /\ \E k \in RowKeys, dur \in CallDurations :
        /\ ret' = CallRecord("get_available_slots", "tab", k[1], k[2], <<>>, dur, <<>>,
                             get_available_slots_tab(appointments, k[1], k[2], dur))
        /\ UNCHANGED <<appointments, staff, leave, cache, written, others>>

GetAvailableSlotsApp ==
    /\ ret.op = "none"
    /\ \E k \in RowKeys, dur \in CallDurations :
        /\ ret' = CallRecord("get_available_slots", "app", k[1], k[2], <<>>, dur, <<>>,
                             get_available_slots_app(appointments, k[1], k[2], dur))
        /\ UNCHANGED <<appointments, staff, leave, cache, written, others>>

NextSlots ==
    \/ CheckOverlapTab
    \/ CheckOverlapApp
    \/ GetAvailableSlotsTab
    \/ GetAvailableSlotsApp

SpecSlots == InitSlots /\ [][NextSlots]_vars

\* ------------------------------------------------- slot engine, claims

Minutes(s) == ParseHM(s).minutes

\* the rows of table t that can block a booking of (e, d)
Blocking(t, e, d) ==
    {i \in 1..Len(t) : t[i].emp = e /\ t[i].date = d /\ t[i].status \in {"Confirmed", "Pending"}}

\* the interval test of the specification, on minutes from midnight
OverlapExists(t, e, d, s, dur, x) ==
    \E i \in Blocking(t, e, d) :
        /\ t[i].id /= x
        /\ Minutes(s) < Minutes(t[i].slot) + t[i].dur
        /\ Minutes(s) + dur > Minutes(t[i].slot)

\* C3: on a table of well-formed rows check_overlap (both implementations)
\* returns true exactly when some Confirmed or Pending appointment of the same
\* employee and date, other than the excluded one, satisfies
\* candidateStart < existingEnd and candidateEnd > existingStart.
C3_OverlapIffIntervalTest ==
    ret.op = "check_overlap" =>
        /\ ~ret.raised
        /\ ret.value = OverlapExists(appointments, ret.employee, ret.date,
                                     ret.time_slot, ret.duration, ret.exclude_id)

\* C3 witness: the excluded row overlaps the candidate, and another row still
\* makes the call return true.
C3_Witness ==
    /\ ret.op = "check_overlap"
    /\ ret.value = TRUE
    /\ ret.exclude_id /= <<>>
    /\ \E i \in Blocking(appointments, ret.employee, ret.date) :
           /\ appointments[i].id = ret.exclude_id
           /\ Minutes(ret.time_slot) < Minutes(appointments[i].slot) + appointments[i].dur
           /\ Minutes(ret.time_slot) + ret.duration > Minutes(appointments[i].slot)

\* a Confirmed or Pending appointment of the call's employee and date that
\* starts at the call's time slot
SameStart(i) ==
    /\ i \in Blocking(appointments, ret.employee, ret.date)
    /\ Minutes(appointments[i].slot) = Minutes(ret.time_slot)

\* C4 as stated: identical slots always report overlap, whatever the candidate
\* and the existing duration, 0 included.
C4_IdenticalSlotsAlwaysOverlap ==
    (ret.op = "check_overlap" /\ ret.exclude_id = <<>> /\ \E i \in 1..Len(appointments) : SameStart(i))
        => ret.value = TRUE

\* C4 amended: identical slots report overlap whenever the candidate duration
\* and the duration of the appointment starting at that time are both positive.
C4_IdenticalSlotsOverlapWhenPositive ==
    (/\ ret.op = "check_overlap"
     /\ ret.exclude_id = <<>>
     /\ ret.duration > 0
     /\ \E i \in 1..Len(appointments) : SameStart(i) /\ appointments[i].dur > 0)
        => ret.value = TRUE

\* C4 witness: a call for the slot an existing 30-minute appointment starts at.
C4_Witness ==
    /\ ret.op = "check_overlap"
    /\ ret.exclude_id = <<>>
    /\ ret.duration = 30
    /\ ret.value = TRUE
    /\ Len(appointments) = 1
    /\ SameStart(1)
    /\ appointments[1].dur = 30

\* the 30-minute grid 09:00 .. 19:30
GridLabels == {SlotLabel(h, m) : h \in 9..19, m \in {0, 30}}

\* C5: get_available_slots returns, in increasing time order and without
\* duplicates, exactly the grid labels for which the interval test finds no
\* overlap; with no Confirmed or Pending booking of the employee on the date
\* it returns all 22 labels.
C5_AvailableSlotsExact ==
    ret.op = "get_available_slots" =>
        /\ ~ret.raised
        /\ \A i \in 1..(Len(ret.value) - 1) : Minutes(ret.value[i]) < Minutes(ret.value[i + 1])
        /\ {ret.value[i] : i \in 1..Len(ret.value)}
             = {s \in GridLabels :
                   ~OverlapExists(appointments, ret.employee, ret.date, s, ret.duration, <<>>)}
        /\ (Blocking(appointments, ret.employee, ret.date) = {} => Len(ret.value) = 22)

\* C5 witness: some slots are withheld because of a booking, the others offered.
C5_Witness ==
    /\ ret.op = "get_available_slots"
    /\ Blocking(appointments, ret.employee, ret.date) /= {}
    /\ Len(ret.value) = 20

\* C6 as stated: every offered slot s has s >= 09:00 and s + duration <= 20:00.
C6_OfferedSlotsEndByClose ==
    ret.op = "get_available_slots" =>
        \A i \in 1..Len(ret.value) :
            /\ Minutes(ret.value[i]) >= 9 * 60
            /\ Minutes(ret.value[i]) + ret.duration <= 20 * 60

\* C6 amended: every offered slot starts inside business hours, s >= 09:00 and
\* s + 30 <= 20:00; the end s + duration of the appointment is not checked.
C6_OfferedSlotsStartInHours ==
    ret.op = "get_available_slots" =>
        \A i \in 1..Len(ret.value) :
            /\ Minutes(ret.value[i]) >= 9 * 60
            /\ Minutes(ret.value[i]) + 30 <= 20 * 60

\* C6 witness: 19:30 is offered for an hour-long appointment.
C6_Witness ==
    /\ ret.op = "get_available_slots"
    /\ ret.duration = 60
    /\ \E i \in 1..Len(ret.value) : ret.value[i] = SlotLabel(19, 30)

\* ------------------------------------- identifier generation, one call a step

\* rows per table the calls start from
MaxSeedRows == 2

\* identifiers the stored tables hold: the prefix (or none) and what follows it
IdShapes ==
    {[pre |-> TRUE, suf |-> DecStr(999)], [pre |-> TRUE, suf |-> DecStr(1000)],
     [pre |-> TRUE, suf |-> DecStr(9999)], [pre |-> TRUE, suf |-> DecStr(10000)],
     [pre |-> TRUE, suf |-> <<"0", "0", "1">>], [pre |-> TRUE, suf |-> <<"X", "1">>],
     [pre |-> TRUE, suf |-> <<>>], [pre |-> FALSE, suf |-> <<"B", "1", "2">>]}

ShapeTables == UNION {[1..n -> IdShapes] : n \in 0..MaxSeedRows}

IdOf(prefix, shape) == (IF shape.pre THEN prefix ELSE <<>>) \o shape.suf

PayloadStatuses == {"Confirmed", "Pending", "Cancelled", NaN}

BookingOf(status) == Row("Asha", 1, SlotLabel(9, 0), 30, status)

StaffPayload == [name |-> "Asha", status |-> "Active"]

LeavePayloads == {[name |-> "Asha", status |-> st] : st \in {"Approved", "Pending", NaN}}

\* the three tables hold the same identifier shapes under their own prefix;
\* each behaviour is one call on the tables drawn
InitIds ==
    \E t \in ShapeTables :
        /\ appointments =
               [i \in 1..Len(t) |-> AppointmentRow(IdOf(APT, t[i]), BookingOf("Confirmed"))]
        /\ staff = [i \in 1..Len(t) |-> StaffRow(IdOf(STF, t[i]), StaffPayload)]
        /\ leave = [i \in 1..Len(t) |->
                       [id |-> IdOf(LV, t[i]), name |-> "Asha", status |-> "Approved"]]
        /\ ret = [op |-> "none"]
        /\ NoOthers

CallSaveBookingTab ==
    /\ ret.op = "none"
    /\ \E st \in PayloadStatuses : save_booking_tab(BookingOf(st))

CallSaveBookingApp ==
    /\ ret.op = "none"
    /\ \E st \in PayloadStatuses : save_booking_app(BookingOf(st))

CallAddStaff ==
    /\ ret.op = "none"
    /\ add_staff(StaffPayload)

CallAddStaffForm ==
    /\ ret.op = "none"
    /\ add_staff_form(StaffPayload)

CallAddLeaveRecord ==
    /\ ret.op = "none"
    /\ \E data \in LeavePayloads : add_leave_record(data)

NextIds ==
    \/ CallSaveBookingTab
    \/ CallSaveBookingApp
    \/ CallAddStaff
    \/ CallAddStaffForm
    \/ CallAddLeaveRecord

SpecIds == InitIds /\ [][NextIds]_vars

\* -------------------------------------------------- the booking ledger

\* rows the appointments table may grow to
MaxRows == 2

BookingKeys == {<<"Asha", 1>>, <<"Ravi", 1>>}

BookingSpans == {<<SlotLabel(9, 0), 30>>, <<SlotLabel(9, 0), 60>>, <<SlotLabel(9, 30), 30>>}

BookingPayloads ==
    {Row(k[1], k[2], sd[1], sd[2], st) :
        k \in BookingKeys, sd \in BookingSpans, st \in PayloadStatuses}

\* the partial dicts update_booking is called with
UpdatePayloads ==
    {[slot |-> SlotLabel(9, 0)], [dur |-> 60], [status |-> "Confirmed"],
     [emp |-> "Asha", slot |-> SlotLabel(9, 30)]}

TargetIds == {AptId(1000), AptId(1001), AptId(1002)}

\* what the form is filled in with
FormDurations ==
    {[n |-> 30, numpy |-> FALSE], [n |-> 30, numpy |-> TRUE], [n |-> 60, numpy |-> TRUE]}

FormSlots == {SlotLabel(9, 0), SlotLabel(9, 30)}

Init ==
    /\ appointments = <<>>
    /\ staff = <<>>
    /\ leave = <<>>
    /\ ret = [op |-> "none"]
    /\ NoOthers

SaveBookingTab ==
    /\ Len(appointments) < MaxRows
    /\ \E data \in BookingPayloads : save_booking_tab(data)

SaveBookingApp ==
    /\ Len(appointments) < MaxRows
    /\ \E data \in BookingPayloads : save_booking_app(data)

UpdateBooking ==
    \E id \in TargetIds, data \in UpdatePayloads : update_booking(id, data)

CancelBooking ==
    \E id \in TargetIds : cancel_booking(id)

BookingFormTab ==
    /\ Len(appointments) < MaxRows
    /\ \E k \in BookingKeys, dur \in FormDurations :
           render_booking_form(k[1], k[2], dur, FormSlots)

BookingFormApp ==
    /\ Len(appointments) < MaxRows
    /\ \E k \in BookingKeys, dur \in FormDurations :
           new_booking_form(k[1], k[2], dur, FormSlots)

Next ==
    \/ SaveBookingTab
    \/ SaveBookingApp
    \/ UpdateBooking
    \/ CancelBooking

Spec == Init /\ [][Next]_vars

\* the mutations behind the booking pages: bookings are created through a
\* form, edited by update_booking and cancelled by cancel_booking
NextForm ==
    \/ BookingFormTab
    \/ BookingFormApp
    \/ UpdateBooking
    \/ CancelBooking

SpecForm == Init /\ [][NextForm]_vars

\* ------------------------------------------------------ ledger, claims

\* no two Confirmed or Pending appointments of one employee on one date have
\* overlapping intervals [start, start + duration)
NoOverlap(t) ==
    \A i, j \in 1..Len(t) :
        (/\ i /= j
         /\ t[i].emp = t[j].emp
         /\ t[i].date = t[j].date
         /\ t[i].status \in {"Confirmed", "Pending"}
         /\ t[j].status \in {"Confirmed", "Pending"})
            => ~(/\ Minutes(t[i].slot) < Minutes(t[j].slot) + t[j].dur
                 /\ Minutes(t[i].slot) + t[i].dur > Minutes(t[j].slot))

\* C1: every table reachable from one without overlap by save_booking,
\* update_booking and cancel_booking is without overlap.
C1_NoOverlapInvariant == NoOverlap(appointments)

\* the table an operation that appended a row started from
Before(t) == IF ret.raised THEN t ELSE SubSeq(t, 1, Len(t) - 1)

\* C2: save_booking never appends a row whose interval overlaps a Confirmed or
\* Pending appointment of the same employee on the same date.
C2_SaveBookingRejectsOverlap ==
    (ret.op = "save_booking" /\ ~ret.raised) =>
        ~OverlapExists(Before(appointments), ret.data.emp, ret.data.date,
                       ret.data.slot, ret.data.dur, <<>>)

Suffix(id, prefix) == SubSeq(id, Len(prefix) + 1, Len(id))

\* every identifier is the prefix followed by decimal digits
WellFormedIds(t, prefix) ==
    \A i \in 1..Len(t) : StartsWith(t[i].id, prefix) /\ IntOk(Suffix(t[i].id, prefix))

\* the greatest suffix, compared as a number
MaxSuffix(t, prefix) ==
    CHOOSE m \in {IntOf(Suffix(t[i].id, prefix)) : i \in 1..Len(t)} :
        \A i \in 1..Len(t) : IntOf(Suffix(t[i].id, prefix)) <= m

\* C7: save_booking (both implementations) yields APT1000 on an empty table and
\* APT<m+1>, m the greatest numeric suffix, on a table of APT<digits> ids.
C7_NextAppointmentId ==
    ret.op = "save_booking" =>
        LET before == Before(appointments)
        IN /\ before = <<>> => (~ret.raised /\ ret.value = APT \o DecStr(1000))
           /\ (before /= <<>> /\ WellFormedIds(before, APT)) =>
                  (/\ ~ret.raised
                   /\ ret.value = APT \o DecStr(MaxSuffix(before, APT) + 1))

\* C8: add_staff yields STF001 on an empty table and otherwise STF followed by
\* the greatest numeric suffix plus one, zero-padded to 3 digits;
\* add_leave_record yields LV1000 and otherwise LV<greatest suffix + 1>.
C8_NextStaffAndLeaveId ==
    /\ ret.op = "add_staff" =>
           LET before == Before(staff)
           IN /\ before = <<>> => (~ret.raised /\ ret.value = STF \o <<"0", "0", "1">>)
              /\ (before /= <<>> /\ WellFormedIds(before, STF)) =>
                     (/\ ~ret.raised
                      /\ ret.value = STF \o ZFill(DecStr(MaxSuffix(before, STF) + 1), 3))
    /\ ret.op = "add_leave_record" =>
           LET before == Before(leave)
           IN /\ before = <<>> => (~ret.raised /\ ret.value = LV \o DecStr(1000))
              /\ (before /= <<>> /\ WellFormedIds(before, LV)) =>
                     (/\ ~ret.raised
                      /\ ret.value = LV \o DecStr(MaxSuffix(before, LV) + 1))

\* an identifier with a non-numeric suffix, or none with the prefix
ParseFails(t, prefix) ==
    \/ \E i \in 1..Len(t) : StartsWith(t[i].id, prefix) /\ ~IntOk(Suffix(t[i].id, prefix))
    \/ \A i \in 1..Len(t) : ~StartsWith(t[i].id, prefix)

\* the operation returned start and appended a row carrying it to t
FellBack(t, before, start) ==
    /\ ~ret.raised
    /\ ret.value = start
    /\ Len(t) = Len(before) + 1
    /\ t[Len(t)].id = start

\* C9: on a non-empty table with a non-numeric suffix, or with no identifier of
\* the prefix, save_booking / add_staff / add_leave_record complete, return the
\* fixed starting id and append the row.
C9_ParseFailureFallsBack ==
    /\ (ret.op = "save_booking" /\ Before(appointments) /= <<>>
            /\ ParseFails(Before(appointments), APT))
           => FellBack(appointments, Before(appointments), APT \o DecStr(1000))
    /\ (ret.op = "add_staff" /\ Before(staff) /= <<>> /\ ParseFails(Before(staff), STF))
           => FellBack(staff, Before(staff), STF \o <<"0", "0", "1">>)
    /\ (ret.op = "add_leave_record" /\ Before(leave) /= <<>> /\ ParseFails(Before(leave), LV))
           => FellBack(leave, Before(leave), LV \o DecStr(1000))

\* C10 as stated: the row save_booking appends carries the generated id and
\* status Confirmed whatever the payload carried; the row add_leave_record
\* appends has status Pending.
C10_StatusForced ==
    /\ (ret.op = "save_booking" /\ ~ret.raised) =>
           /\ appointments[Len(appointments)].id = ret.value
           /\ appointments[Len(appointments)].status = "Confirmed"
    /\ (ret.op = "add_leave_record" /\ ~ret.raised) =>
           /\ leave[Len(leave)].id = ret.value
           /\ leave[Len(leave)].status = "Pending"

\* C10 amended: the row save_booking appends carries the generated id and the
\* Status of the payload, NaN when the payload has none; the row
\* add_leave_record appends has status Pending whatever the payload carried.
C10_StatusFromPayload ==
    /\ (ret.op = "save_booking" /\ ~ret.raised) =>
           /\ appointments[Len(appointments)].id = ret.value
           /\ appointments[Len(appointments)].status = ret.data.status
    /\ (ret.op = "add_leave_record" /\ ~ret.raised) =>
           /\ leave[Len(leave)].id = ret.value
           /\ leave[Len(leave)].status = "Pending"

\* C10 witness: a payload with status Cancelled was appended as Cancelled.
C10_Witness ==
    /\ ret.op = "save_booking"
    /\ ~ret.raised
    /\ ret.data.status = "Cancelled"
    /\ appointments[Len(appointments)].status = "Cancelled"

\* ------------------------------------------------------ two sessions
\* Each browser session runs the script in its own thread.  save_booking reads
\* the table (load_appointments(), or the appointments_df the script run
\* loaded), computes the next identifier from what it read and writes the whole
\* table back: the read and the write are separate steps of a session.

Writers == {1, 2}

\* the booking each session submits
PayloadOf(w) == Row(IF w = 1 THEN "Asha" ELSE "Ravi", 1, SlotLabel(9, 0), 30, "Confirmed")

\* the stored table the sessions start from
RaceSeeds ==
    {<<>>,
     <<AppointmentRow(AptId(1000), Row("Asha", 2, SlotLabel(9, 0), 30, "Confirmed"))>>,
     <<AppointmentRow(AptId(9999), Row("Asha", 2, SlotLabel(9, 0), 30, "Confirmed"))>>}

\* reads and writes done so far, over all sessions
Events ==
    LET Done(w) == CASE sessions[w].pc = "idle" -> 0
                     [] sessions[w].pc = "loaded" -> 1
                     [] sessions[w].pc = "done" -> 2
    IN Done(1) + Done(2)

InitRace ==
    /\ appointments \in RaceSeeds
    /\ staff = <<>>
    /\ leave = <<>>
    /\ ret = [op |-> "none"]
    /\ sessions = [w \in Writers |-> [pc |-> "idle"]]
    /\ cache = <<>>
    /\ written = <<>>
    /\ files = <<>>
    /\ arg = <<>>

\* df = load_appointments() of booking_tab.save_booking, or the
\* appointments_df = load_csv("appointments.csv") of the script run of app.py
SessionLoad(w) ==
    /\ sessions[w].pc = "idle"
    /\ \E impl \in {"tab", "app"} :
           sessions' = [sessions EXCEPT ![w] =
               [pc |-> "loaded", impl |-> impl, df |-> appointments,
                loaded_at |-> Events + 1]]
    /\ UNCHANGED <<appointments, staff, leave, ret, cache, written, files, arg>>

\* the rest of save_booking: new id from the table read, append, write it all
SessionStore(w) ==
    /\ sessions[w].pc = "loaded"
    /\ LET me == sessions[w]
           new_id == IF me.impl = "tab" THEN save_booking_tab_new_id(me.df)
                     ELSE save_booking_app_new_id(me.df)
       IN /\ appointments' = IF new_id.raised THEN appointments
                             ELSE Append(me.df, AppointmentRow(new_id.value, PayloadOf(w)))
          /\ ret' = OpRecord("save_booking", me.impl, PayloadOf(w), new_id)
          /\ sessions' = [sessions EXCEPT ![w] =
                 [pc |-> "done", impl |-> me.impl, df |-> me.df,
                  loaded_at |-> me.loaded_at, stored_at |-> Events + 1,
                  raised |-> new_id.raised, new_id |-> new_id.value]]
    /\ UNCHANGED <<staff, leave, cache, written, files, arg>>

Load1 == SessionLoad(1)

Load2 == SessionLoad(2)

Store1 == SessionStore(1)

Store2 == SessionStore(2)

NextRace ==
    \/ Load1
    \/ Load2
    \/ Store1
    \/ Store2

SpecRace == InitRace /\ [][NextRace]_vars

\* ------------------------------------------------------ sessions, claims

BothDone == \A w \in Writers : sessions[w].pc = "done"

\* both sessions read the table before either wrote it back
Raced ==
    /\ sessions[1].loaded_at < sessions[2].stored_at
    /\ sessions[2].loaded_at < sessions[1].stored_at

DuplicateIds(t) == \E i, j \in 1..Len(t) : i /= j /\ t[i].id = t[j].id

\* the booking of session w is not in the table
Lost(t, w) ==
    ~\E i \in 1..Len(t) : t[i].emp = PayloadOf(w).emp /\ t[i].date = PayloadOf(w).date

\* the half of C11 about interleaved writers: same id, and a duplicate
\* identifier or a lost row
RaceOutcome ==
    (BothDone /\ Raced) =>
        /\ sessions[1].new_id = sessions[2].new_id
        /\ DuplicateIds(appointments) \/ \E w \in Writers : Lost(appointments, w)

\* the half of C11 about one writer at a time: no duplicate, nothing lost
SerialOutcome ==
    (BothDone /\ ~Raced) =>
        /\ ~DuplicateIds(appointments)
        /\ \A w \in Writers : ~Lost(appointments, w)

\* C11: two save_booking calls that both read before either writes compute the
\* same id and leave a duplicate identifier or a lost row; two calls run one
\* after the other leave neither.
C11_RaceDuplicatesOrLoses == RaceOutcome /\ SerialOutcome

\* ------------------------------------------------- cache, one process
\* One script run at a time: reads through the cached loaders, the mutations
\* of the two tabs, save_csv, save_sheet_data, and time passing.

\* rows a table of this specification may grow to
MaxCacheRows == 2

\* time that passes in one step
TickStep == 30

CacheBooking == Row("Asha", 1, SlotLabel(9, 0), 30, "Confirmed")

CacheStaffId == STF \o ZFill(DecStr(1), 3)

CacheSheets ==
    {<<StaffRow(CacheStaffId, [name |-> "Asha", status |-> st])>> : st \in {"Active", "Resigned"}}

NoFile == [exists |-> FALSE, rows |-> <<>>]

FileOf(t) == [exists |-> TRUE, rows |-> t]

CacheFiles == {NoFile} \cup {FileOf(t) : t \in CacheSheets}

\* the page the script runs render: each works on its own files
Pages == {"bookings", "staff", "app", "sheets"}

InitCache ==
    /\ appointments = <<>>
    /\ staff = <<>>
    /\ leave = <<>>
    /\ ret = [op |-> "none"]
    /\ cache = <<>>
    /\ written = <<>>
    /\ arg = <<>>
    /\ \E page \in Pages :
           /\ sessions = [page |-> page]
           /\ IF page = "sheets" THEN files \in [cwd : CacheFiles, data : CacheFiles]
              ELSE files = [cwd |-> NoFile, data |-> NoFile]

ReadRecord(op, table, call) == [op |-> op, table |-> table, value |-> call.value]

Read(op, table, call) ==
    /\ ret' = ReadRecord(op, table, call)
    /\ cache' = call.cache
    /\ UNCHANGED <<appointments, staff, leave, written, others>>

LoadAppointments ==
    /\ sessions.page = "bookings"
    /\ Read("load_appointments", "appointments", load_appointments)

LoadStaff ==
    /\ sessions.page = "staff"
    /\ Read("load_staff", "staff", load_staff)

LoadLeaveRecords ==
    /\ sessions.page = "staff"
    /\ Read("load_leave_records", "leave", load_leave_records)

LoadCsv ==
    /\ sessions.page = "app"
    /\ Read("load_csv", "appointments", load_csv)

GetSheetData ==
    /\ sessions.page = "sheets"
    /\ Read("get_sheet_data", "sheet", get_sheet_data)

\* ages the model tells apart: an older entry counts as MaxAge old
MaxAge == 120

\* TickStep passes: every entry ages, an entry as old as its ttl is gone
Tick ==
    /\ cache /= <<>>
    /\ cache' = [k \in {x \in DOMAIN cache : x \in NoTtl \/ cache[x].age + TickStep < ttl} |->
                    [cache[k] EXCEPT !.age = IF @ + TickStep > MaxAge THEN MaxAge
                                              ELSE @ + TickStep]]
    /\ UNCHANGED <<appointments, staff, leave, ret, written, others>>

CacheSaveBooking ==
    /\ sessions.page = "bookings"
    /\ Len(appointments) < MaxCacheRows
    /\ save_booking_tab(CacheBooking)

CacheUpdateBooking ==
    /\ sessions.page = "bookings"
    /\ \E id \in {AptId(1000), AptId(1001)} :
           update_booking(id, [slot |-> SlotLabel(9, 30)])

CacheCancelBooking ==
    /\ sessions.page = "bookings"
    /\ \E id \in {AptId(1000), AptId(1001)} : cancel_booking(id)

CacheAddStaff ==
    /\ sessions.page = "staff"
    /\ Len(staff) < MaxCacheRows
    /\ add_staff(StaffPayload)

CacheUpdateStaff ==
    /\ sessions.page = "staff"
    /\ update_staff(CacheStaffId, [name |-> "Ravi"])

CacheDeleteStaff ==
    /\ sessions.page = "staff"
    /\ delete_staff(CacheStaffId)

CacheAddLeaveRecord ==
    /\ sessions.page = "staff"
    /\ Len(leave) < MaxCacheRows
    /\ add_leave_record([name |-> "Asha", status |-> "Approved"])

\* save_csv(ap2, "appointments.csv") with the table a script run built from
\* the one it loaded
SaveCsv ==
    /\ sessions.page = "app"
    /\ Len(appointments) < MaxCacheRows
    /\ LET ap == load_csv.value
           ap2 == Append(ap, AppointmentRow(save_booking_app_new_id(ap).value, CacheBooking))
       IN \E outcome \in WriteOutcomes, left \in Torn(ap2) : save_csv(ap2, outcome, left)

SaveSheetData ==
    /\ sessions.page = "sheets"
    /\ \E t \in CacheSheets, first \in WriteOutcomes, second \in WriteOutcomes :
           \E left \in Torn(t) : save_sheet_data(t, first, second, left)

NextCache ==
    \/ LoadAppointments
    \/ LoadStaff
    \/ LoadLeaveRecords
    \/ LoadCsv
    \/ GetSheetData
    \/ Tick
    \/ CacheSaveBooking
    \/ CacheUpdateBooking
    \/ CacheCancelBooking
    \/ CacheAddStaff
    \/ CacheUpdateStaff
    \/ CacheDeleteStaff
    \/ CacheAddLeaveRecord
    \/ SaveCsv
    \/ SaveSheetData

SpecCache == InitCache /\ [][NextCache]_vars

\* ------------------------------------------------------ cache, claims

ReadOps == {"load_appointments", "load_staff", "load_leave_records", "load_csv",
            "get_sheet_data"}

\* the read returned the table last written to its file
ReadIsFresh == ret.table \in DOMAIN written => ret.value = written[ret.table]

\* C12: a cached read that follows a successful write of its table returns
\* exactly the table that was written.
C12_ReadYourWrites == ret.op \in ReadOps => ReadIsFresh

\* the same for the loaders of the two tabs and of app.py alone
TabReadsAreFresh == ret.op \in ReadOps \ {"get_sheet_data"} => ReadIsFresh

\* what save_csv must have done, given how its to_csv went; unchanged tells
\* whether a torn write may have altered the stored table
SaveCsvReported(unchanged) ==
    ret.op = "save_csv" =>
        /\ ~ret.raised
        /\ ret.value = (ret.outcome = "ok")
        /\ ret.value => appointments = ret.df
        /\ ret.outcome = "refused" => appointments = ret.before
        /\ ret.outcome = "torn" =>
               IF unchanged THEN appointments = ret.before
               ELSE appointments \in Torn(ret.df)

HoldsTable(file, df) == file.exists /\ file.rows = df

SaveSheetDataReported(unchanged) ==
    ret.op = "save_sheet_data" =>
        /\ ~ret.raised
        /\ ret.value = (ret.first = "ok" \/ ret.second = "ok")
        /\ ret.value => HoldsTable(files.cwd, ret.df) \/ HoldsTable(files.data, ret.df)
        /\ (ret.first = "refused" /\ ret.second = "refused") => files = ret.before
        /\ (unchanged /\ ~ret.value) => files = ret.before

\* C13 as stated: a failed save does not raise, returns False and leaves the
\* stored table as it was; True is returned only when the table was written.
C13_FailedSaveLeavesStore == SaveCsvReported(TRUE) /\ SaveSheetDataReported(TRUE)

\* C13 amended: a failed save does not raise and returns False, True is
\* returned only when the table was written, and the stored table is as it was
\* when to_csv failed on opening the file; a to_csv that fails part way leaves
\* a truncated file.
C13_FailedSaveReported == SaveCsvReported(FALSE) /\ SaveSheetDataReported(FALSE)

\* C13 witness: save_csv was refused on a stored table with a row, and
\* returned False.
C13_Witness ==
    /\ ret.op = "save_csv"
    /\ ret.outcome = "refused"
    /\ ~ret.value
    /\ Len(ret.before) > 0
    /\ appointments = ret.before

\* ---------------------------------------------------------------------------
\* query.py: tables, timestamps and the calendar
\* ---------------------------------------------------------------------------

\* A table is [none, cols, rows]: none stands for the argument None, cols is
\* the set of column names and rows the sequence of rows, each a function from
\* cols to cells.  A cell is <<>> (NaN) or <<v>>.
NoTable == [none |-> TRUE, cols |-> {}, rows |-> <<>>]

Table(cols, rows) == [none |-> FALSE, cols |-> cols, rows |-> rows]

Project(row, cols) == [c \in cols |-> row[c]]

ProjectRows(rows, cols) == [i \in 1..Len(rows) |-> Project(rows[i], cols)]

\* `df is None or df.empty`
Missing(df) == df.none \/ df.cols = {} \/ Len(df.rows) = 0

\* The days the model knows, counted from 2025-01-01, with the calendar
\* attributes pandas derives from them (isocalendar().week is the ISO week).
Calendar ==
    (-6 :> [year |-> 2024, month |-> 12, week |-> 52, day |-> 26]) @@
    (1 :> [year |-> 2025, month |-> 1, week |-> 1, day |-> 2]) @@
    (333 :> [year |-> 2025, month |-> 11, week |-> 48, day |-> 30]) @@
    (356 :> [year |-> 2025, month |-> 12, week |-> 52, day |-> 23]) @@
    (358 :> [year |-> 2025, month |-> 12, week |-> 52, day |-> 25]) @@
    (362 :> [year |-> 2025, month |-> 12, week |-> 1, day |-> 29]) @@
    (363 :> [year |-> 2025, month |-> 12, week |-> 1, day |-> 30]) @@
    (364 :> [year |-> 2025, month |-> 12, week |-> 1, day |-> 31]) @@
    (365 :> [year |-> 2026, month |-> 1, week |-> 1, day |-> 1])

month_name(m) ==
    CASE m = 1 -> "January" [] m = 11 -> "November" [] m = 12 -> "December" [] OTHER -> "other"

\* A timestamp is [d, h]: the day and the hour of the day.
At(d, h) == [d |-> d, h |-> h]

Earlier(a, b) == a.d < b.d \/ (a.d = b.d /\ a.h < b.h)

\* The text formats pd.to_datetime(..., errors='coerce') parses without a
\* format argument; any other text becomes NaT.
Inferable == {"%Y-%m-%d %H:%M:%S", "%Y-%m-%d", "%b %d, %Y"}

\* A date cell holds [fmt, d, h]: the format the text is written in and the
\* instant it denotes.
DateText(fmt, d, h) == <<[fmt |-> fmt, d |-> d, h |-> h]>>

to_datetime(cell) ==
    IF cell = <<>> THEN <<>>
    ELSE IF cell[1].fmt \in Inferable THEN <<At(cell[1].d, cell[1].h)>>
    ELSE <<>>

Timestamps(df) == [i \in 1..Len(df.rows) |-> to_datetime(df.rows[i]["Timestamp"])]

RECURSIVE SeqSum(_)
SeqSum(cells) ==
    IF Len(cells) = 0 THEN 0 ELSE cells[1][1] + SeqSum(Tail(cells))

NotNa(cells) == SelectSeq(cells, LAMBDA x : x /= <<>>)

\* Series.sum(min_count=n): NaN unless n values are present.
sum_min_count(cells, min_count) ==
    IF Len(NotNa(cells)) < min_count THEN <<>> ELSE <<SeqSum(NotNa(cells))>>

\* `float(total) if pd.notna(total) else 0.0`
FloatOrZero(total) == IF total = <<>> THEN 0 ELSE total[1]

\* The days of the calendar that satisfy a mask on year, month and week.
Days == DOMAIN Calendar

\* df2.loc[mask, col]: the cells of col in the rows whose timestamp parses to
\* one of the days of the mask.
Loc(df, days, col) ==
    LET ts == Timestamps(df)
        idx == {i \in 1..Len(df.rows) : ts[i] /= <<>> /\ ts[i][1].d \in days}
        RECURSIVE Pick(_)
        Pick(i) == IF i > Len(df.rows) THEN <<>>
                   ELSE IF i \in idx THEN <<df.rows[i][col]>> \o Pick(i + 1)
                   ELSE Pick(i + 1)
    IN  Pick(1)

\* The body shared by the period sums: default without a table or a Timestamp
\* column, KeyError without 'Bill Amount', else the sum over the days of the mask.
PeriodSum(df, days) ==
    IF Missing(df) \/ "Timestamp" \notin df.cols THEN Returns(0)
    ELSE IF "Bill Amount" \notin df.cols THEN Raises
    ELSE Returns(FloatOrZero(sum_min_count(Loc(df, days, "Bill Amount"), 1)))

SameWeek(day) ==
    {d \in Days : Calendar[d].week = Calendar[day].week /\ Calendar[d].year = Calendar[day].year}

SameMonth(day) ==
    {d \in Days : Calendar[d].month = Calendar[day].month /\ Calendar[d].year = Calendar[day].year}

SameYear(day) == {d \in Days : Calendar[d].year = Calendar[day].year}

today_sales(df, now) == PeriodSum(df, {now.d})

weekly_service_sales(df, now) == PeriodSum(df, SameWeek(now.d))

monthly_service_sales(df, now) == PeriodSum(df, SameMonth(now.d))

prev_week_service_sales(df, now) ==
    LET prev == now.d - 7
    IN  PeriodSum(df, SameWeek(prev))

prev_month_service_sales(df, now) ==
    LET first_this_month == now.d - Calendar[now.d].day + 1
        last_prev_month == first_this_month - 1
    IN  PeriodSum(df, SameMonth(last_prev_month))

cumulative_sales(df, now) ==
    LET month == PeriodSum(df, SameMonth(now.d))
        year == PeriodSum(df, SameYear(now.d))
    IN  IF month.raised THEN Raises
        ELSE Returns([month_sales |-> month.value, year_sales |-> year.value])

CellsOf(rows, col) == [i \in 1..Len(rows) |-> rows[i][col]]

total_product_sales(df) ==
    IF Missing(df) \/ "Bill Amount" \notin df.cols THEN Returns(0)
    ELSE Returns(FloatOrZero(sum_min_count(CellsOf(df.rows, "Bill Amount"), 1)))

\* The values of a column that are present, as a set: the group keys of
\* groupby(col), which drops the rows whose key is NaN.
Keys(rows, col) == {rows[i][col][1] : i \in {j \in 1..Len(rows) : rows[j][col] /= <<>>}}

Group(rows, col, key) == SelectSeq(rows, LAMBDA r : r[col] = <<key>>)

\* Amounts are whole rupees and derived ratios are kept in hundredths;
\* RoundDiv is round(n / d, 0) with ties to even, as numpy rounds.
RoundDiv(n, d) ==
    LET q == n \div d
        r == n % d
    IN  IF 2 * r < d THEN q
        ELSE IF 2 * r > d THEN q + 1
        ELSE IF q % 2 = 0 THEN q ELSE q + 1

\* An empty result frame, and a result frame as the set of its rows.
EmptyFrame == {}

incentive_table(df) ==
    IF Missing(df) THEN Returns(EmptyFrame)
    ELSE IF "Service done by" \notin df.cols THEN Returns(EmptyFrame)
    ELSE IF "Bill Amount" \notin df.cols THEN Raises
    ELSE Returns({[employee |-> e,
                   total_sales |-> SeqSum(NotNa(CellsOf(Group(df.rows, "Service done by", e), "Bill Amount"))),
                   incentive |-> SeqSum(NotNa(CellsOf(Group(df.rows, "Service done by", e), "Bill Amount")))]
                  : e \in Keys(df.rows, "Service done by")})

\* The rows of df with the parsed timestamp in place of the text.
WithTimestamp(df) ==
    [i \in 1..Len(df.rows) |-> [c \in df.cols |-> IF c = "Timestamp" THEN to_datetime(df.rows[i][c])
                                                   ELSE df.rows[i][c]]]

performance_table(df, selected_month, now) ==
    IF Missing(df) THEN Returns(EmptyFrame)
    ELSE IF "Timestamp" \notin df.cols THEN Raises
    ELSE LET three_months_ago == At(now.d - 90, now.h)
             recent == SelectSeq(WithTimestamp(df),
                                 LAMBDA r : r["Timestamp"] /= <<>>
                                            /\ ~Earlier(r["Timestamp"][1], three_months_ago))
             df2 == IF selected_month /= "" /\ selected_month /= "All months"
                    THEN SelectSeq(recent, LAMBDA r : month_name(Calendar[r["Timestamp"][1].d].month) = selected_month)
                    ELSE recent
             YMW(r) == [Year |-> Calendar[r["Timestamp"][1].d].year,
                        Month |-> month_name(Calendar[r["Timestamp"][1].d].month),
                        Week |-> Calendar[r["Timestamp"][1].d].week]
             groups == {YMW(df2[i]) : i \in 1..Len(df2)}
         IN  IF "Name" \notin df.cols THEN Raises
             ELSE Returns({[Year |-> g.Year, Month |-> g.Month, Week |-> g.Week,
                            customer_visits |-> Cardinality(Keys(SelectSeq(df2, LAMBDA r : YMW(r) = g), "Name"))]
                           : g \in groups})

peak_hours(df) ==
    IF Missing(df) THEN Returns(EmptyFrame)
    ELSE IF "Timestamp" \notin df.cols THEN Raises
    ELSE LET ts == NotNa(Timestamps(df))
         IN  Returns({[hour |-> hr,
                       visit_count |-> Len(SelectSeq(ts, LAMBDA t : t[1].h = hr))]
                      : hr \in {ts[i][1].h : i \in 1..Len(ts)}})

spend_vs_visits(df) ==
    IF Missing(df) THEN Returns(EmptyFrame)
    ELSE IF "Name" \notin df.cols \/ "Bill Amount" \notin df.cols THEN Raises
    ELSE Returns({[Name |-> n,
                   visits |-> Len(Group(df.rows, "Name", n)),
                   total_spent |-> SeqSum(NotNa(CellsOf(Group(df.rows, "Name", n), "Bill Amount"))),
                   avg_spend_per_visit |->
                       RoundDiv(100 * SeqSum(NotNa(CellsOf(Group(df.rows, "Name", n), "Bill Amount"))),
                                Len(Group(df.rows, "Name", n)))]
                  : n \in Keys(df.rows, "Name")})

\* astype(str) of a phone cell: NaN becomes the text 'nan'.
PhoneStr(cell) == IF cell = <<>> THEN "nan" ELSE cell[1]

new_and_repeated_clients(df, now) ==
    IF Missing(df) \/ "Timestamp" \notin df.cols THEN Returns(<<0, 0>>)
    ELSE LET rows == WithTimestamp(df)
             past == SelectSeq(rows, LAMBDA r : r["Timestamp"] /= <<>> /\ r["Timestamp"][1].d < now.d)
             today_df == SelectSeq(rows, LAMBDA r : r["Timestamp"] /= <<>> /\ r["Timestamp"][1].d = now.d)
         IN  IF "Phone Number" \notin df.cols THEN Returns(<<0, 0>>)
             ELSE LET past_phones == Keys(past, "Phone Number")
                      new_clients == SelectSeq(today_df, LAMBDA r : PhoneStr(r["Phone Number"]) \notin past_phones)
                      repeated == SelectSeq(today_df, LAMBDA r : PhoneStr(r["Phone Number"]) \in past_phones)
                  IN  Returns(<<Len(new_clients), Len(repeated)>>)

\* ---------------------------------------------------------------------------
\* query.py: the time normalizer
\* ---------------------------------------------------------------------------

formats == <<"%d/%m/%Y %H:%M:%S", "%d/%m/%Y", "%Y-%m-%d %H:%M:%S", "%Y-%m-%d">>

\* pd.to_datetime(series, format=fmt, errors="coerce") on one cell.
to_datetime_format(cell, fmt) ==
    IF cell /= <<>> /\ cell[1].fmt = fmt THEN <<At(cell[1].d, cell[1].h)>> ELSE <<>>

RECURSIVE FormatLoop(_, _)
FormatLoop(series, i) ==
    IF i > Len(formats) THEN [j \in 1..Len(series) |-> to_datetime(series[j])]
    ELSE LET converted == [j \in 1..Len(series) |-> to_datetime_format(series[j], formats[i])]
         IN  IF Len(NotNa(converted)) > 0 THEN converted ELSE FormatLoop(series, i + 1)

to_datetime_safe(series) == FormatLoop(series, 1)

NaTSeries(n) == [i \in 1..n |-> <<>>]

RECURSIVE CandidateLoop(_, _, _)
CandidateLoop(df, column_candidates, i) ==
    IF i > Len(column_candidates) THEN NaTSeries(Len(df.rows))
    ELSE IF column_candidates[i] \in df.cols THEN to_datetime_safe(CellsOf(df.rows, column_candidates[i]))
    ELSE CandidateLoop(df, column_candidates, i + 1)

safe_datetime_convert(df, column_candidates) == CandidateLoop(df, column_candidates, 1)

timestamp_cols == <<"Timestamp", "DateTime", "Bill Date & Time", "Bill Date", "Timestamp ">>

\* preprocess_data, as far as the Timestamp column: the value is the column,
\* <<>> for the empty frame returned without a table.
preprocess_data(df) ==
    IF Missing(df) THEN Returns(<<>>)
    ELSE LET first == safe_datetime_convert(df, timestamp_cols)
         IN  IF Len(NotNa(first)) = 0
             THEN Returns(safe_datetime_convert(df, <<"Date", "Appointment Date", "Bill Date">>))
             ELSE Returns(first)

\* ---------------------------------------------------------------------------
\* query.py: staff figures
\* ---------------------------------------------------------------------------

get_staff_kpis(staff_arg, leave_df, now) ==
    LET staff_df == IF staff_arg.none THEN Table({}, <<>>) ELSE staff_arg
        total_staff == Len(staff_df.rows)
        ld_from == safe_datetime_convert(leave_df, <<"From Date">>)
        ld_to == safe_datetime_convert(leave_df, <<"To Date">>)
        mask == {i \in 1..Len(leave_df.rows) :
                    /\ ld_from[i] /= <<>> /\ ld_from[i][1].d <= now.d
                    /\ ld_to[i] /= <<>> /\ ld_to[i][1].d >= now.d
                    /\ "Status" \in leave_df.cols
                    /\ leave_df.rows[i]["Status"] = <<"Approved">>}
        on_leave_today ==
            IF Missing(leave_df) THEN 0
            ELSE IF "Staff Name" \in leave_df.cols
                 THEN Cardinality({leave_df.rows[i]["Staff Name"][1] :
                                   i \in {j \in mask : leave_df.rows[j]["Staff Name"] /= <<>>}})
                 ELSE 0
        joining == safe_datetime_convert(staff_df, <<"Joining Date">>)
        first_day == At(now.d - Calendar[now.d].day + 1, now.h)
        new_this_month ==
            IF Missing(staff_df) THEN 0
            ELSE Cardinality({i \in 1..Len(joining) : joining[i] /= <<>> /\ ~Earlier(joining[i][1], first_day)})
    IN  IF ~Missing(staff_df) /\ "Status" \notin staff_df.cols THEN Raises
        ELSE Returns([total_staff |-> total_staff,
                      active_staff |-> IF Missing(staff_df) THEN 0
                                       ELSE Len(SelectSeq(staff_df.rows, LAMBDA r : r["Status"] = <<"Active">>)),
                      on_leave_today |-> on_leave_today,
                      new_this_month |-> new_this_month])

\* Attendance rows are kept as a bag: a sequence of [row, n] entries, n the
\* number of times the row occurs, since no statistic depends on their order.
RECURSIVE BagCount(_, _)
BagCount(bag, rows) ==
    IF Len(bag) = 0 THEN 0
    ELSE (IF bag[1].row \in rows THEN bag[1].n ELSE 0) + BagCount(Tail(bag), rows)

BagRows(bag) == {bag[i].row : i \in 1..Len(bag)}

BagSize(bag) == BagCount(bag, BagRows(bag))

BagMissing(df) == df.none \/ df.cols = {} \/ BagSize(df.rows) = 0

get_staff_attendance_stats(df) ==
    IF df.none THEN Raises
    ELSE IF "Date" \notin df.cols THEN Raises
    ELSE IF "Staff Name" \notin df.cols \/ "Status" \notin df.cols THEN Raises
    ELSE Returns({LET group == {r \in BagRows(df.rows) : r["Staff Name"] = <<n>>}
                      total_days == BagCount(df.rows, {r \in group : r["Status"] /= <<>>})
                      present_days == BagCount(df.rows, {r \in group : r["Status"] = <<"Present">>})
                  IN  [StaffName |-> <<n>>,
                       total_days |-> total_days,
                       present_days |-> present_days,
                       attendance_pct |-> IF total_days = 0 THEN <<>>
                                          ELSE <<RoundDiv(10000 * present_days, total_days)>>]
                  : n \in {r["Staff Name"][1] : r \in {x \in BagRows(df.rows) : x["Staff Name"] /= <<>>}}})

\* ROUND(x, 2) of DuckDB on a DOUBLE: ties away from zero.
RoundAway(n, d) == (2 * n + d) \div (2 * d)

\* staff_management_tab.get_attendance_stats on the loaded frames: the rows of
\* the last 30 days, grouped in SQL (COUNT(*) counts every row of the group).
get_attendance_stats(att_df, staff_empty, now) ==
    IF BagMissing(att_df) \/ staff_empty THEN Returns(EmptyFrame)
    ELSE IF "Date" \notin att_df.cols THEN Raises
    ELSE IF "Staff Name" \notin att_df.cols \/ "Status" \notin att_df.cols THEN Raises
    ELSE LET thirty_days_ago == At(now.d - 30, now.h)
             recent == {r \in BagRows(att_df.rows) :
                           r["Date"] /= <<>> /\ ~Earlier(At(r["Date"][1].d, r["Date"][1].h), thirty_days_ago)}
         IN  Returns({LET group == {r \in recent : r["Staff Name"] = n}
                          total_days == BagCount(att_df.rows, group)
                          present_days == BagCount(att_df.rows, {r \in group : r["Status"] = <<"Present">>})
                      IN  [StaffName |-> n,
                           total_days |-> total_days,
                           present_days |-> present_days,
                           attendance_pct |-> <<RoundAway(10000 * present_days, total_days)>>]
                      : n \in {r["Staff Name"] : r \in recent}})

\* ---------------------------------------------------------------------------
\* query.py: one call on a bounded table
\* ---------------------------------------------------------------------------

MaxQueryRows == 2

ServiceCols == {"Timestamp", "Bill Amount", "Name", "Phone Number", "Service done by"}

ServiceRow(ts, amount, name, phone, employee) ==
    [c \in ServiceCols |->
        CASE c = "Timestamp" -> ts
          [] c = "Bill Amount" -> amount
          [] c = "Name" -> name
          [] c = "Phone Number" -> phone
          [] OTHER -> employee]

ServiceRows ==
    { ServiceRow(DateText("%Y-%m-%d %H:%M:%S", 363, 10), <<100>>, <<"X">>, <<"p1">>, <<"Asha">>),
      ServiceRow(DateText("%Y-%m-%d %H:%M:%S", 363, 11), <<>>, <<"Y">>, <<"p2">>, <<"Asha">>),
      ServiceRow(DateText("%Y-%m-%d %H:%M:%S", 363, 15), <<30>>, <<"X">>, <<"p1">>, <<"Ravi">>),
      ServiceRow(DateText("%Y-%m-%d %H:%M:%S", 362, 10), <<50>>, <<"X">>, <<"p1">>, <<"Ravi">>),
      ServiceRow(DateText("not a date", 0, 0), <<70>>, <<"Y">>, <<"p2">>, <<"Ravi">>),
      ServiceRow(DateText("%Y-%m-%d %H:%M:%S", 365, 10), <<20>>, <<"Y">>, <<>>, <<"Asha">>),
      ServiceRow(DateText("%Y-%m-%d %H:%M:%S", 356, 10), <<40>>, <<>>, <<"p2">>, <<>>),
      ServiceRow(DateText("%Y-%m-%d %H:%M:%S", 333, 10), <<60>>, <<"Y">>, <<"p2">>, <<"Asha">>) }

SeqsUpTo(S, n) == UNION {[1..k -> S] : k \in 0..n}

\* Column sets: every column, or one column absent.
ColumnSets(cols) == {cols} \cup {cols \ {c} : c \in cols}

TablesOf(cols, rowset) ==
    {NoTable, Table({}, <<>>)} \cup
    {Table(cs, ProjectRows(rows, cs)) : cs \in ColumnSets(cols), rows \in SeqsUpTo(rowset, MaxQueryRows)}

Nows == {At(363, 12), At(365, 12)}

Months == {"", "All months", "December"}

StaffCols == {"Status", "Joining Date"}

StaffRows ==
    { [c \in StaffCols |-> IF c = "Status" THEN <<"Active">> ELSE DateText("%Y-%m-%d", 363, 0)],
      [c \in StaffCols |-> IF c = "Status" THEN <<"Resigned">> ELSE DateText("%Y-%m-%d", 333, 0)],
      [c \in StaffCols |-> IF c = "Status" THEN <<"Active">> ELSE DateText("not a date", 0, 0)] }

LeaveCols == {"From Date", "To Date", "Status", "Staff Name"}

LeaveRow(from, to, status, name) ==
    [c \in LeaveCols |->
        CASE c = "From Date" -> from
          [] c = "To Date" -> to
          [] c = "Status" -> status
          [] OTHER -> name]

LeaveRows ==
    { LeaveRow(DateText("%Y-%m-%d", 362, 0), DateText("%Y-%m-%d", 364, 0), <<"Approved">>, <<"Asha">>),
      LeaveRow(DateText("%Y-%m-%d", 362, 0), DateText("%Y-%m-%d", 364, 0), <<"Pending">>, <<"Ravi">>),
      LeaveRow(DateText("%Y-%m-%d", 356, 0), DateText("not a date", 0, 0), <<"Approved">>, <<"Ravi">>) }

AttendanceCols == {"Staff Name", "Date", "Status"}

AttendanceRow(name, day, status) ==
    [c \in AttendanceCols |->
        CASE c = "Staff Name" -> <<name>>
          [] c = "Date" -> DateText("%Y-%m-%d", day, 0)
          [] OTHER -> status]

\* The numbers of rows of each kind an attendance table is built from.
PresentCounts == {0, 1, 2, 27}

AbsentCounts == {0, 3}

FewCounts == {0, 1}

\* The bag with n[k] copies of row k, for the rows k with n[k] > 0.
BagOf(n) == SelectSeq(n, LAMBDA e : e.n > 0)

Copies(row, n) == [row |-> row, n |-> n]

ProjectBag(bag, cols) == [i \in 1..Len(bag) |-> Copies(Project(bag[i].row, cols), bag[i].n)]

AttendanceBags ==
    { BagOf(<<Copies(AttendanceRow("Asha", 362, <<"Present">>), present),
              Copies(AttendanceRow("Asha", 362, <<"Absent">>), absent),
              Copies(AttendanceRow("Asha", 362, <<"Half Day">>), half),
              Copies(AttendanceRow("Asha", 362, <<"On Leave">>), on_leave),
              Copies(AttendanceRow("Asha", 362, <<>>), blank),
              Copies(AttendanceRow("Asha", 1, <<"Present">>), old),
              Copies(AttendanceRow("Ravi", 362, <<"Present">>), other)>>)
      : present \in PresentCounts, absent \in AbsentCounts, half \in FewCounts,
        on_leave \in FewCounts, blank \in FewCounts, old \in FewCounts, other \in FewCounts }

AttendanceTables ==
    {NoTable, Table({}, <<>>)} \cup
    {Table(cs, ProjectBag(bag, cs)) : cs \in ColumnSets(AttendanceCols), bag \in AttendanceBags}

QueryArgs ==
    {[kind |-> "service", df |-> df, now |-> now, selected_month |-> m]
        : df \in TablesOf(ServiceCols, ServiceRows), now \in Nows, m \in Months} \cup
    {[kind |-> "staff", df |-> df, leave_df |-> ld, now |-> now]
        : df \in TablesOf(StaffCols, StaffRows), ld \in TablesOf(LeaveCols, LeaveRows), now \in Nows} \cup
    {[kind |-> "attendance", df |-> df, staff_empty |-> e, now |-> now]
        : df \in AttendanceTables, e \in BOOLEAN, now \in Nows}

InitQuery ==
    /\ arg \in QueryArgs
    /\ appointments = <<>>
    /\ staff = <<>>
    /\ leave = <<>>
    /\ ret = [op |-> "none"]
    /\ sessions = <<>>
    /\ cache = <<>>
    /\ written = <<>>
    /\ files = <<>>

\* One call of a query function on the drawn table; ret keeps its result.
Query(op, result) ==
    /\ ret.op = "none"
    /\ ret' = [op |-> op, raised |-> result.raised, value |-> result.value]
    /\ UNCHANGED <<appointments, staff, leave, cache, written, others>>

TodaySales ==
    /\ arg.kind = "service"
    /\ Query("today_sales", today_sales(arg.df, arg.now))

WeeklyServiceSales ==
    /\ arg.kind = "service"
    /\ Query("weekly_service_sales", weekly_service_sales(arg.df, arg.now))

MonthlyServiceSales ==
    /\ arg.kind = "service"
    /\ Query("monthly_service_sales", monthly_service_sales(arg.df, arg.now))

PrevWeekServiceSales ==
    /\ arg.kind = "service"
    /\ Query("prev_week_service_sales", prev_week_service_sales(arg.df, arg.now))

PrevMonthServiceSales ==
    /\ arg.kind = "service"
    /\ Query("prev_month_service_sales", prev_month_service_sales(arg.df, arg.now))

CumulativeSales ==
    /\ arg.kind = "service"
    /\ Query("cumulative_sales", cumulative_sales(arg.df, arg.now))

TotalProductSales ==
    /\ arg.kind = "service"
    /\ Query("total_product_sales", total_product_sales(arg.df))

IncentiveTable ==
    /\ arg.kind = "service"
    /\ Query("incentive_table", incentive_table(arg.df))

PerformanceTable ==
    /\ arg.kind = "service"
    /\ Query("performance_table", performance_table(arg.df, arg.selected_month, arg.now))

PeakHours ==
    /\ arg.kind = "service"
    /\ Query("peak_hours", peak_hours(arg.df))

SpendVsVisits ==
    /\ arg.kind = "service"
    /\ Query("spend_vs_visits", spend_vs_visits(arg.df))

NewAndRepeatedClients ==
    /\ arg.kind = "service"
    /\ Query("new_and_repeated_clients", new_and_repeated_clients(arg.df, arg.now))

GetStaffKpis ==
    /\ arg.kind = "staff"
    /\ Query("get_staff_kpis", get_staff_kpis(arg.df, arg.leave_df, arg.now))

GetStaffAttendanceStats ==
    /\ arg.kind = "attendance"
    /\ Query("get_staff_attendance_stats", get_staff_attendance_stats(arg.df))

GetAttendanceStats ==
    /\ arg.kind = "attendance"
    /\ Query("get_attendance_stats", get_attendance_stats(arg.df, arg.staff_empty, arg.now))

NextQuery ==
    \/ TodaySales
    \/ WeeklyServiceSales
    \/ MonthlyServiceSales
    \/ PrevWeekServiceSales
    \/ PrevMonthServiceSales
    \/ CumulativeSales
    \/ TotalProductSales
    \/ IncentiveTable
    \/ PerformanceTable
    \/ PeakHours
    \/ SpendVsVisits
    \/ NewAndRepeatedClients
    \/ GetStaffKpis
    \/ GetStaffAttendanceStats
    \/ GetAttendanceStats

SpecQuery == InitQuery /\ [][NextQuery]_vars

\* ---------------------------------------------------------------------------
\* query.py: defaults
\* ---------------------------------------------------------------------------

PeriodSums ==
    {"today_sales", "weekly_service_sales", "monthly_service_sales",
     "prev_week_service_sales", "prev_month_service_sales", "total_product_sales"}

FrameQueries == {"incentive_table", "performance_table", "peak_hours", "spend_vs_visits"}

QueryModule ==
    PeriodSums \cup FrameQueries \cup
    {"cumulative_sales", "new_and_repeated_clients", "get_staff_kpis", "get_staff_attendance_stats"}

\* What the query returns for a table that is None or empty.
Default(op) ==
    CASE op \in PeriodSums -> 0
      [] op = "cumulative_sales" -> [month_sales |-> 0, year_sales |-> 0]
      [] op = "new_and_repeated_clients" -> <<0, 0>>
      [] op = "get_staff_kpis" ->
             [total_staff |-> 0, active_staff |-> 0, on_leave_today |-> 0, new_this_month |-> 0]
      [] OTHER -> EmptyFrame

IsDefault == ~ret.raised /\ ret.value = Default(ret.op)

\* The table of the call is None or empty (for get_staff_kpis: both tables).
InputMissing ==
    CASE arg.kind = "service" -> Missing(arg.df)
      [] arg.kind = "staff" -> Missing(arg.df) /\ Missing(arg.leave_df)
      [] OTHER -> BagMissing(arg.df)

\* The table has the column and every cell of it is NaN.
AllNull(df, col) ==
    /\ ~Missing(df)
    /\ col \in df.cols
    /\ \A i \in 1..Len(df.rows) : df.rows[i][col] = <<>>

DefaultOnMissingInput(ops) == (ret.op \in ops /\ InputMissing) => IsDefault

ZeroOnNullAmounts ==
    /\ (ret.op \in PeriodSums /\ AllNull(arg.df, "Bill Amount")) => (~ret.raised /\ ret.value = 0)
    /\ (ret.op = "cumulative_sales" /\ AllNull(arg.df, "Bill Amount")) => IsDefault

\* C14: every query of the query module returns its default and does not
\* raise when its table is None or empty, and the period sums return 0.0 when
\* the table is empty or every amount is missing.
C14_DefaultOnMissingInput == DefaultOnMissingInput(QueryModule) /\ ZeroOnNullAmounts

\* The part of C14 that holds: every modelled query but
\* get_staff_attendance_stats, and the zero of the period sums.
C14_DefaultButAttendance ==
    DefaultOnMissingInput(QueryModule \ {"get_staff_attendance_stats"}) /\ ZeroOnNullAmounts

\* The column the claim names for each query, when the table has rows and
\* lacks that column.
ExpectedColumn ==
    [today_sales |-> {"Bill Amount"},
     weekly_service_sales |-> {"Bill Amount"},
     incentive_table |-> {"Bill Amount"},
     performance_table |-> {"Timestamp"},
     peak_hours |-> {"Timestamp"},
     spend_vs_visits |-> {"Name"},
     get_staff_kpis |-> {"Status"}]

ColumnAbsent ==
    /\ ret.op \in DOMAIN ExpectedColumn
    /\ ~Missing(arg.df)
    /\ ExpectedColumn[ret.op] \cap arg.df.cols = {}

\* C15: a query on a table with rows that lacks a column the query expects
\* returns the default it returns for an empty table and does not raise.
C15_DefaultOnMissingColumn ==
    ColumnAbsent =>
        /\ ~ret.raised
        /\ ret.op /= "get_staff_kpis" => ret.value = Default(ret.op)

\* The part of C15 that holds: the columns the queries test for with a
\* membership check ('Timestamp' in the period sums and in
\* new_and_repeated_clients, 'Service done by' in incentive_table, 'Bill
\* Amount' in total_product_sales, 'Phone Number' in new_and_repeated_clients).
C15_CheckedColumns ==
    /\ (/\ ret.op \in (PeriodSums \ {"total_product_sales"}) \cup {"cumulative_sales", "new_and_repeated_clients"}
        /\ "Timestamp" \notin arg.df.cols) => IsDefault
    /\ (ret.op = "incentive_table" /\ "Service done by" \notin arg.df.cols) => IsDefault
    /\ (ret.op = "total_product_sales" /\ "Bill Amount" \notin arg.df.cols) => IsDefault
    /\ (ret.op = "new_and_repeated_clients" /\ "Phone Number" \notin arg.df.cols) => IsDefault

RowSet(rows) == {rows[i] : i \in 1..Len(rows)}

\* The client identifiers (phone numbers) with a transaction on the day of
\* now, and those with a transaction on an earlier day.
ClientsToday ==
    {r["Phone Number"][1] :
        r \in {x \in RowSet(WithTimestamp(arg.df)) :
                  x["Phone Number"] /= <<>> /\ x["Timestamp"] /= <<>> /\ x["Timestamp"][1].d = arg.now.d}}

ClientsBefore ==
    {r["Phone Number"][1] :
        r \in {x \in RowSet(WithTimestamp(arg.df)) :
                  x["Phone Number"] /= <<>> /\ x["Timestamp"] /= <<>> /\ x["Timestamp"][1].d < arg.now.d}}

\* C16: new_and_repeated_clients returns the number of distinct clients with
\* a transaction today and none before, and the number of distinct clients
\* with a transaction today and one before.
C16_DistinctClients ==
    (/\ ret.op = "new_and_repeated_clients"
     /\ ~Missing(arg.df)
     /\ {"Timestamp", "Phone Number"} \subseteq arg.df.cols
     /\ \A i \in 1..Len(arg.df.rows) : arg.df.rows[i]["Phone Number"] /= <<>>) =>
        /\ ~ret.raised
        /\ ret.value = <<Cardinality(ClientsToday \ ClientsBefore),
                         Cardinality(ClientsToday \cap ClientsBefore)>>

\* The part of C16 that holds: the two numbers are the numbers of today's
\* rows, not of today's clients, in each class.
C16_RowsCounted ==
    (/\ ret.op = "new_and_repeated_clients"
     /\ ~Missing(arg.df)
     /\ {"Timestamp", "Phone Number"} \subseteq arg.df.cols) =>
        /\ ~ret.raised
        /\ ret.value[1] + ret.value[2] =
               Cardinality({i \in 1..Len(arg.df.rows) :
                               /\ to_datetime(arg.df.rows[i]["Timestamp"]) /= <<>>
                               /\ to_datetime(arg.df.rows[i]["Timestamp"])[1].d = arg.now.d})
        /\ (ret.value[2] > 0) => (ClientsToday \cap ClientsBefore /= {})

\* ---------------------------------------------------------------------------
\* query.py: the time normalizer on a bounded table
\* ---------------------------------------------------------------------------

NormCols == {"Timestamp", "DateTime", "Date"}

\* The cells drawn for each column: texts in one of the listed formats, a
\* text only pandas' inference reads, a text that is no date, and NaN.
NormCells(c) ==
    CASE c = "Timestamp" ->
             {<<>>, DateText("not a date", 0, 0), DateText("%Y-%m-%d %H:%M:%S", 363, 10),
              DateText("%d/%m/%Y", 362, 0)}
      [] c = "DateTime" -> {DateText("not a date", 0, 0), DateText("%d/%m/%Y", 362, 0)}
      [] OTHER -> {<<>>, DateText("%b %d, %Y", 365, 0)}

NormRows(cols) == {r \in [cols -> UNION {NormCells(c) : c \in NormCols}] : \A c \in cols : r[c] \in NormCells(c)}

NormTables ==
    {NoTable} \cup
    {Table(cs, rows) : cs \in (SUBSET NormCols) \ {{}}, rows \in {<<>>}} \cup
    UNION {{Table(cs, rows) : rows \in SeqsUpTo(NormRows(cs), MaxQueryRows)} : cs \in (SUBSET NormCols) \ {{}}}

CandidateLists == {<<"Timestamp", "DateTime">>, <<"DateTime", "Timestamp">>, <<"Date">>, <<"Bill Date">>}

NormArgs ==
    {[kind |-> "normalize", df |-> df, column_candidates |-> cc] : df \in NormTables, cc \in CandidateLists}

InitNormalize ==
    /\ arg \in NormArgs
    /\ appointments = <<>>
    /\ staff = <<>>
    /\ leave = <<>>
    /\ ret = [op |-> "none"]
    /\ sessions = <<>>
    /\ cache = <<>>
    /\ written = <<>>
    /\ files = <<>>

SafeDatetimeConvert ==
    /\ arg.kind = "normalize"
    /\ ~arg.df.none
    /\ Query("safe_datetime_convert", Returns(safe_datetime_convert(arg.df, arg.column_candidates)))

PreprocessData ==
    /\ arg.kind = "normalize"
    /\ Query("preprocess_data", preprocess_data(arg.df))

NextNormalize == SafeDatetimeConvert \/ PreprocessData

SpecNormalize == InitNormalize /\ [][NextNormalize]_vars

\* The candidate column exists and at least one of its values parses.
Parses(df, col) == col \in df.cols /\ Len(NotNa(to_datetime_safe(CellsOf(df.rows, col)))) > 0

RECURSIVE FirstParsing(_, _, _)
FirstParsing(df, column_candidates, i) ==
    IF i > Len(column_candidates) THEN NaTSeries(Len(df.rows))
    ELSE IF Parses(df, column_candidates[i]) THEN to_datetime_safe(CellsOf(df.rows, column_candidates[i]))
    ELSE FirstParsing(df, column_candidates, i + 1)

\* The candidates of the call: the argument, or both lists of preprocess_data.
CandidatesOfCall ==
    IF ret.op = "safe_datetime_convert" THEN arg.column_candidates
    ELSE timestamp_cols \o <<"Date", "Appointment Date", "Bill Date">>

ValidTimestamp(t) == t.d \in DOMAIN Calendar /\ t.h \in 0..23

\* C17: the normalizer returns the parsed values of the first candidate
\* column that has at least one value that parses; the result is all null
\* only if no candidate parses, and every non-null entry is a valid timestamp.
C17_FirstParsingCandidate ==
    (ret.op \in {"safe_datetime_convert", "preprocess_data"} /\ ~Missing(arg.df)) =>
        /\ ~ret.raised
        /\ ret.value = FirstParsing(arg.df, CandidatesOfCall, 1)
        /\ \A i \in 1..Len(ret.value) : ret.value[i] /= <<>> => ValidTimestamp(ret.value[i][1])

\* The part of C17 that holds: the result is that of the first candidate
\* column that exists (for preprocess_data: of the second list when the first
\* gave no timestamp), one entry per row, every non-null entry valid.
C17_FirstExistingCandidate ==
    (ret.op \in {"safe_datetime_convert", "preprocess_data"} /\ ~Missing(arg.df)) =>
        /\ ~ret.raised
        /\ Len(ret.value) = Len(arg.df.rows)
        /\ ret.op = "safe_datetime_convert" =>
               ret.value = CandidateLoop(arg.df, arg.column_candidates, 1)
        /\ \A i \in 1..Len(ret.value) : ret.value[i] /= <<>> => ValidTimestamp(ret.value[i][1])

\* ---------------------------------------------------------------------------
\* attendance statistics
\* ---------------------------------------------------------------------------

AttendanceOps == {"get_staff_attendance_stats", "get_attendance_stats"}

StaffNames(df) == {r["Staff Name"] : r \in BagRows(df.rows)}

RowsOf(df, name) == {r \in BagRows(df.rows) : r["Staff Name"] = name}

\* The result row of a staff name is as the claim computes it: total the
\* number of rows, present the number of rows with Status Present, the
\* percentage the nearest hundredth to present / total x 100, within 0..100.
StatsAsClaimed(df, g) ==
    /\ g.total_days = BagCount(df.rows, RowsOf(df, g.StaffName))
    /\ g.present_days = BagCount(df.rows, {r \in RowsOf(df, g.StaffName) : r["Status"] = <<"Present">>})
    /\ g.attendance_pct /= <<>>
    /\ LET pct == g.attendance_pct[1]
           off == pct * g.total_days - 10000 * g.present_days
       IN  /\ 2 * off <= g.total_days
           /\ -2 * off <= g.total_days
           /\ pct \in 0..10000

AllRecent(df, now) ==
    \A r \in BagRows(df.rows) : r["Date"] /= <<>> /\ now.d - r["Date"][1].d < 30

AttendanceAsClaimed ==
    /\ ~ret.raised
    /\ \A name \in StaffNames(arg.df) :
           /\ Cardinality({g \in ret.value : g.StaffName = name}) = 1
           /\ \A g \in ret.value : g.StaffName = name => StatsAsClaimed(arg.df, g)
    /\ ret.op = "get_attendance_stats" => ret.value = get_staff_attendance_stats(arg.df).value

AttendanceCall ==
    /\ ret.op \in AttendanceOps
    /\ ~arg.df.none
    /\ arg.df.cols = AttendanceCols
    /\ ret.op = "get_attendance_stats" => (AllRecent(arg.df, arg.now) /\ ~arg.staff_empty)

\* C19: for every staff name with a row, total is the number of the staff's
\* rows, present the number with Status exactly Present, the percentage
\* present / total x 100 to 2 decimals and within 0..100 (27 of 30 is 90.0);
\* both implementations agree on rows of the last 30 days.
C19_AttendancePct == AttendanceCall => AttendanceAsClaimed

\* The part of C19 that holds: the same, on tables where every row has a Status.
C19_WhenStatusPresent ==
    (AttendanceCall /\ \A r \in BagRows(arg.df.rows) : r["Status"] /= <<>>) => AttendanceAsClaimed

\* 27 Present rows of 30 give 90.0 in both implementations.
C19_TwentySevenOfThirty ==
    (/\ AttendanceCall
     /\ BagCount(arg.df.rows, RowsOf(arg.df, <<"Asha">>)) = 30
     /\ BagCount(arg.df.rows, {r \in RowsOf(arg.df, <<"Asha">>) : r["Status"] = <<"Present">>}) = 27
     /\ \A r \in BagRows(arg.df.rows) : r["Status"] /= <<>>) =>
        \E g \in ret.value : g.StaffName = <<"Asha">> /\ g.attendance_pct = <<9000>>

C19_ReachedTwentySevenOfThirty ==
    /\ AttendanceCall
    /\ ret.op = "get_attendance_stats"
    /\ \E g \in ret.value : g.StaffName = <<"Asha">> /\ g.total_days = 30 /\ g.present_days = 27

\* ---------------------------------------------------------------------------
\* the booking flow of a single writer
\* ---------------------------------------------------------------------------

\* The stored tables the flow starts from: bulk-loaded rows, numbered from
\* APT1000, that satisfy the no-overlap invariant.
FlowPayloads ==
    {Row(k[1], k[2], sd[1], sd[2], st) :
        k \in BookingKeys, sd \in BookingSpans, st \in {"Confirmed", "Cancelled"}}

FlowSeeds ==
    {t \in {[i \in 1..Len(rows) |-> AppointmentRow(AptId(999 + i), rows[i])]
               : rows \in SeqsUpTo(FlowPayloads, MaxSeedRows)} : NoOverlap(t)}

InitFlow ==
    /\ appointments \in FlowSeeds
    /\ staff = <<>>
    /\ leave = <<>>
    /\ ret = [op |-> "none"]
    /\ NoOthers

FlowFormTab ==
    /\ Len(appointments) <= MaxRows
    /\ \E k \in BookingKeys, dur \in FormDurations :
           render_booking_form(k[1], k[2], dur, FormSlots)

FlowFormApp ==
    /\ Len(appointments) <= MaxRows
    /\ \E k \in BookingKeys, dur \in FormDurations :
           new_booking_form(k[1], k[2], dur, FormSlots)

NextFlow ==
    \/ FlowFormTab
    \/ FlowFormApp

SpecFlow == InitFlow /\ [][NextFlow]_vars

\* C20: from a table without overlap, bookings that take their slot from the
\* available slots of the stored table and are saved with the same employee,
\* date and duration leave no two Confirmed or Pending appointments of one
\* employee on one date overlapping.
C20_BookingFlowKeepsNoOverlap ==
    /\ NoOverlap(appointments)
    /\ (ret.op = "save_booking" /\ ~ret.raised) =>
           ~OverlapExists(Before(appointments), ret.data.emp, ret.data.date,
                          ret.data.slot, ret.data.dur, <<>>)

\* C20 witness: the form has booked an employee who already had a Confirmed
\* or Pending appointment on that date.
C20_Witness ==
    /\ ret.op = "save_booking"
    /\ ~ret.raised
    /\ \E i \in 1..(Len(appointments) - 1) :
           /\ appointments[i].emp = ret.data.emp
           /\ appointments[i].date = ret.data.date
           /\ appointments[i].status \in ActiveStatus

\* ---------------------------------------------------------------------------
\* frame of the mutations
\* ---------------------------------------------------------------------------

\* t2 has every row of t, in place and unchanged, and possibly more.
Extends(t, t2) == Len(t2) >= Len(t) /\ \A i \in 1..Len(t) : t2[i] = t[i]

\* t2 is t with the Status of the rows with that id set to status.
OnlyStatusSet(t, t2, id, status) ==
    /\ Len(t2) = Len(t)
    /\ \A i \in 1..Len(t) :
           t2[i] = IF t[i].id = id THEN [t[i] EXCEPT !.status = status] ELSE t[i]

\* t2 is t but for the first row with that id, which keeps its place and id.
OnlyFirstChanged(t, t2, id) ==
    /\ Len(t2) = Len(t)
    /\ \A i \in 1..Len(t) :
           \/ t2[i] = t[i]
           \/ /\ t[i].id = id
              /\ t2[i].id = id
              /\ \A j \in 1..(i - 1) : t[j].id /= id

\* The step is within the frame of the operation it reports; a save_csv of
\* the booking page counts when the write completed, or always (whole).
FrameStep(whole) ==
    /\ ret'.op = "cancel_booking" =>
           /\ OnlyStatusSet(appointments, appointments', ret'.value, "Cancelled")
           /\ UNCHANGED <<staff, leave>>
    /\ ret'.op = "delete_staff" =>
           /\ OnlyStatusSet(staff, staff', ret'.value, "Resigned")
           /\ UNCHANGED <<appointments, leave>>
    /\ ret'.op = "update_booking" =>
           /\ OnlyFirstChanged(appointments, appointments', ret'.value)
           /\ UNCHANGED <<staff, leave>>
    /\ ret'.op = "update_staff" =>
           /\ OnlyFirstChanged(staff, staff', ret'.value)
           /\ UNCHANGED <<appointments, leave>>
    /\ ret'.op = "save_booking" =>
           /\ Extends(appointments, appointments')
           /\ UNCHANGED <<staff, leave>>
    /\ ret'.op = "add_staff" =>
           /\ Extends(staff, staff')
           /\ UNCHANGED <<appointments, leave>>
    /\ ret'.op = "add_leave_record" =>
           /\ Extends(leave, leave')
           /\ UNCHANGED <<appointments, staff>>
    /\ (ret'.op = "save_csv" /\ (whole \/ ret'.outcome = "ok")) =>
           /\ Extends(appointments, appointments')
           /\ UNCHANGED <<staff, leave>>

WindowSeeds ==
    {<<>>,
     <<AppointmentRow(AptId(1000), Row("Asha", 1, SlotLabel(10, 0), 30, "Confirmed"))>>,
     <<AppointmentRow(AptId(9999), Row("Ravi", 1, SlotLabel(9, 0), 30, "Cancelled"))>>}

InitWindow ==
    /\ appointments \in WindowSeeds
    /\ staff = <<>>
    /\ leave = <<>>
    /\ ret = [op |-> "none"]
    /\ sessions = [w \in Writers |-> [pc |-> "idle"]]
    /\ cache = <<>>
    /\ written = <<>>
    /\ files = <<>>
    /\ arg = <<>>

\* sessions that have written
Stored == {w \in Writers : sessions[w].pc = "done"}

\* the form down to the select box, of either page
WindowSlots(impl, df, employee, date, duration) ==
    IF impl = "tab" THEN get_available_slots_form_tab(df, employee, date, duration)
    ELSE get_available_slots_app(df, employee, date, duration.n)

\* save_booking with server-side re-validation: no id when the slot is taken
WindowNewId_revalidated(me, df) ==
    IF OverlapExists(df, me.data.emp, me.data.date, me.data.slot, me.data.dur, <<>>)
    THEN Raises
    ELSE IF me.impl = "tab" THEN save_booking_tab_new_id(df)
         ELSE save_booking_app_new_id(df)

\* the identifier save_booking gives the row: nothing but the id is computed
\* between reading the table and appending to it
WindowNewId(me, df) ==
    IF me.impl = "tab" THEN save_booking_tab_new_id(df)
    ELSE save_booking_app_new_id(df)

\* the script run down to time_slot = st.selectbox("Time Slot*", available_slots)
WindowPick(w) ==
    /\ sessions[w].pc = "idle"
    /\ \E impl \in {"tab", "app"}, k \in BookingKeys, dur \in FormDurations :
         \E df \in {Cached(IF impl = "tab" THEN "load_appointments"
                           ELSE "load_csv(appointments.csv)", appointments)} :
           \E available_slots \in {WindowSlots(impl, df, k[1], k[2], dur)} :
              /\ ~available_slots.raised
              /\ \E i \in 1..Len(available_slots.value) :
                    /\ available_slots.value[i] \in FormSlots
                    /\ sessions' = [sessions EXCEPT ![w] =
                           [pc |-> "picked", impl |-> impl, df |-> df,
                            seen |-> Cardinality(Stored),
                            data |-> Row(k[1], k[2], available_slots.value[i],
                                         dur.n, "Confirmed")]]
              /\ cache' = Filled(IF impl = "tab" THEN "load_appointments"
                                 ELSE "load_csv(appointments.csv)", appointments)
    /\ UNCHANGED <<appointments, staff, leave, ret, written, files, arg>>

\* new_id = save_booking(...); st.success(f"Booking confirmed! ID: {new_id}")
WindowSubmit(w) ==
    /\ sessions[w].pc = "picked"
    /\ \E me \in {sessions[w]} :
         \E df \in {IF me.impl = "tab" THEN Cached("load_appointments", appointments)
                    ELSE me.df} :
           \E new_id \in {WindowNewId(me, df)} :
              /\ ret' = OpRecord("save_booking", me.impl, me.data, new_id)
              /\ IF new_id.raised
                 THEN /\ cache' = Filled("load_appointments", appointments)
                      /\ UNCHANGED <<appointments, written>>
                 ELSE WriteAppointments(Append(df, AppointmentRow(new_id.value, me.data)))
              /\ sessions' = [sessions EXCEPT ![w] =
                     [pc |-> "done", impl |-> me.impl, df |-> me.df, seen |-> me.seen,
                      data |-> me.data, confirmed |-> ~new_id.raised]]
    /\ UNCHANGED <<staff, leave, files, arg>>

Pick1 == WindowPick(1)

Pick2 == WindowPick(2)

Submit1 == WindowSubmit(1)

Submit2 == WindowSubmit(2)

NextWindow ==
    \/ Pick1
    \/ Pick2
    \/ Submit1
    \/ Submit2

SpecWindow == InitWindow /\ [][NextWindow]_vars

\* both sessions took their slot from the table as it was before either wrote,
\* and took the same slot of the same employee and date
SameSlotInWindow ==
    /\ Stored = Writers
    /\ sessions[1].seen = 0
    /\ sessions[2].seen = 0
    /\ sessions[1].data.emp = sessions[2].data.emp
    /\ sessions[1].data.date = sessions[2].data.date
    /\ sessions[1].data.slot = sessions[2].data.slot

\* two Confirmed appointments of (e, d) in t overlap
TwoOverlapping(t, e, d) ==
    \E i, j \in 1..Len(t) :
        /\ i /= j
        /\ t[i].emp = e /\ t[j].emp = e
        /\ t[i].date = d /\ t[j].date = d
        /\ t[i].status = "Confirmed" /\ t[j].status = "Confirmed"
        /\ Minutes(t[i].slot) < Minutes(t[j].slot) + t[j].dur
        /\ Minutes(t[i].slot) + t[i].dur > Minutes(t[j].slot)

\* t is the table both sessions read plus the booking of one of them only
OneBookingLost(t) ==
    /\ Len(t) = Len(sessions[1].df) + 1
    /\ SubSeq(t, 1, Len(t) - 1) = sessions[1].df
    /\ \E w \in Writers :
           [f \in DOMAIN sessions[w].data |-> t[Len(t)][f]] = sessions[w].data

\* C21: two sessions that take the same slot of one employee and date from the
\* table as it was before either wrote are both told the booking is confirmed,
\* and the stored table then holds two overlapping Confirmed appointments of
\* that employee and date or only one of the two bookings.
C21_WindowOverlapsOrLoses ==
    SameSlotInWindow =>
        /\ sessions[1].confirmed
        /\ sessions[2].confirmed
        /\ \/ TwoOverlapping(appointments, sessions[1].data.emp, sessions[1].data.date)
           \/ OneBookingLost(appointments)

\* C21 witnesses: the window ended with two overlapping Confirmed rows, and
\* with one of the two bookings gone.
C21_Witness ==
    /\ SameSlotInWindow
    /\ TwoOverlapping(appointments, sessions[1].data.emp, sessions[1].data.date)

C21_WitnessLost ==
    /\ SameSlotInWindow
    /\ OneBookingLost(appointments)
    /\ ~TwoOverlapping(appointments, sessions[1].data.emp, sessions[1].data.date)

\* ---------------------------------------------------------------------------
\* a single writer creating rows one after the other
\* ---------------------------------------------------------------------------

\* rows the writer adds to a table
MaxNewRows == 2

\* suffixes of the stored identifiers, below and at a change of digit length
SeriesSuffixes == {<<>>, <<7>>, <<999>>, <<9999>>, <<1000, 1001>>}

SeriesTable(prefix, width, ns, row) ==
    [i \in 1..Len(ns) |-> [row EXCEPT !.id = prefix \o ZFill(DecStr(ns[i]), width)]]

InitSeries ==
    /\ appointments \in {SeriesTable(APT, 0, ns, AppointmentRow(<<>>, BookingOf("Confirmed")))
                             : ns \in SeriesSuffixes}
    /\ staff \in {SeriesTable(STF, 3, ns, StaffRow(<<>>, StaffPayload)) : ns \in SeriesSuffixes}
    /\ leave \in {SeriesTable(LV, 0, ns, [id |-> <<>>, name |-> "Asha", status |-> "Pending"])
                      : ns \in SeriesSuffixes}
    /\ ret = [op |-> "none"]
    /\ sessions = [appointments |-> 0, staff |-> 0, leave |-> 0]
    /\ cache = <<>>
    /\ written = <<>>
    /\ files = <<>>
    /\ arg = <<>>

\* the writer's calls so far, by table (bounds the behaviour)
Counted(table) == sessions' = [sessions EXCEPT ![table] = @ + 1]

SeriesSaveBooking ==
    /\ sessions.appointments < MaxNewRows
    /\ \E df \in {Cached("load_appointments", appointments)} :
         \E new_id \in {save_booking_tab_new_id(df)} :
            /\ ret' = [OpRecord("save_booking", "tab", BookingOf("Confirmed"), new_id)
                          EXCEPT !.data = df]
            /\ IF new_id.raised
               THEN /\ cache' = Filled("load_appointments", appointments)
                    /\ UNCHANGED <<appointments, written>>
               ELSE WriteAppointments(Append(df, AppointmentRow(new_id.value,
                                                               BookingOf("Confirmed"))))
    /\ Counted("appointments")
    /\ UNCHANGED <<staff, leave, files, arg>>

SeriesAddStaff ==
    /\ sessions.staff < MaxNewRows
    /\ \E df \in {Cached("load_staff", staff)} :
         \E new_id \in {add_staff_new_id(df)} :
            /\ ret' = [OpRecord("add_staff", "tab", StaffPayload, new_id) EXCEPT !.data = df]
            /\ IF new_id.raised
               THEN /\ cache' = Filled("load_staff", staff)
                    /\ UNCHANGED <<staff, written>>
               ELSE WriteStaff(Append(df, StaffRow(new_id.value, StaffPayload)))
    /\ Counted("staff")
    /\ UNCHANGED <<appointments, leave, files, arg>>

SeriesAddLeaveRecord ==
    /\ sessions.leave < MaxNewRows
    /\ \E df \in {Cached("load_leave_records", leave)} :
         \E new_id \in {add_leave_record_new_id(df)} :
            /\ ret' = [OpRecord("add_leave_record", "tab", <<>>, new_id) EXCEPT !.data = df]
            /\ IF new_id.raised
               THEN /\ cache' = Filled("load_leave_records", leave)
                    /\ UNCHANGED <<leave, written>>
               ELSE WriteLeave(Append(df, [id |-> new_id.value, name |-> "Asha",
                                           status |-> "Pending"]))
    /\ Counted("leave")
    /\ UNCHANGED <<appointments, staff, files, arg>>

NextSeries ==
    \/ SeriesSaveBooking
    \/ SeriesAddStaff
    \/ SeriesAddLeaveRecord

SpecSeries == InitSeries /\ [][NextSeries]_vars

DistinctIds(t) == \A i, j \in 1..Len(t) : i /= j => t[i].id /= t[j].id

\* the id just returned has a suffix above every suffix of the table df the
\* call read
AboveAll(df, prefix) ==
    /\ ~ret.raised
    /\ \A i \in 1..Len(df) :
           IntOf(Suffix(df[i].id, prefix)) < IntOf(Suffix(ret.value, prefix))

\* C22: from tables of well-formed, pairwise distinct identifiers, after any
\* sequence of save_booking / add_staff / add_leave_record calls of one writer
\* the identifiers of each table are pairwise distinct and each new id has a
\* numeric suffix above every suffix already present, also across a change of
\* digit length.
C22_IdsDistinctAndIncreasing ==
    /\ DistinctIds(appointments)
    /\ DistinctIds(staff)
    /\ DistinctIds(leave)
    /\ ret.op = "save_booking" => AboveAll(ret.data, APT)
    /\ ret.op = "add_staff" => AboveAll(ret.data, STF)
    /\ ret.op = "add_leave_record" => AboveAll(ret.data, LV)

\* the same below the change of digit length: holds while every suffix of the
\* table read has the same number of digits as the greatest one
SameLength(df) == \A i, j \in 1..Len(df) : Len(df[i].id) = Len(df[j].id)

C22_WithinOneLength ==
    /\ (ret.op = "save_booking" /\ SameLength(ret.data)) => AboveAll(ret.data, APT)
    /\ (ret.op = "add_staff" /\ SameLength(ret.data)) => AboveAll(ret.data, STF)
    /\ (ret.op = "add_leave_record" /\ SameLength(ret.data)) => AboveAll(ret.data, LV)

\* ---------------------------------------------------------------------------
\* slot engine on tables with malformed rows
\* ---------------------------------------------------------------------------

\* rows per table
MaxMalformedRows == 2

\* Time Slot cells: empty (NaN), text without a colon, text that is not
\* numbers, a well-formed label
SlotCells == {<<>>, <<<<"9">>>>, <<<<"a", ":", "b">>>>, <<SlotLabel(9, 0)>>}

\* Duration cells: empty (NaN) or a number
DurationCells == {<<>>, <<30>>}

\* a stored row of ("Asha", 1) with these cells
CellRow(slot, dur, status) ==
    [emp |-> "Asha", date |-> 1, status |-> status]
        @@ (IF slot = <<>> THEN <<>> ELSE [slot |-> slot[1]])
        @@ (IF dur = <<>> THEN <<>> ELSE [dur |-> dur[1]])

MalformedRows ==
    {CellRow(s, d, st) : s \in SlotCells, d \in DurationCells, st \in {"Confirmed", "Cancelled"}}
        \cup {Row("Asha", 1, SlotLabel(9, 30), 60, "Pending")}

MalformedTables ==
    UNION {{[i \in 1..n |-> [id |-> AptId(1000 + i - 1)] @@ f[i]] : f \in [1..n -> MalformedRows]}
              : n \in 0..MaxMalformedRows}

InitMalformed ==
    /\ appointments \in MalformedTables
    /\ staff = <<>>
    /\ leave = <<>>
    /\ ret = [op |-> "none"]
    /\ NoOthers

SpecMalformed == InitMalformed /\ [][NextSlots]_vars

\* the row has a Time Slot that parses and a Duration
WellFormedRow(r) == ~IsNa(r, "slot") /\ ~IsNa(r, "dur") /\ ParseHM(r.slot).ok

\* a Confirmed or Pending row of the table is malformed
HasMalformedRow(t) ==
    \E i \in 1..Len(t) : t[i].status \in {"Confirmed", "Pending"} /\ ~WellFormedRow(t[i])

\* the call completed and, for check_overlap, answered as if the malformed
\* rows were not in the table
SkipsMalformed ==
    /\ ~ret.raised
    /\ ret.op = "check_overlap" =>
           ret.value = OverlapExists(SelectSeq(appointments, WellFormedRow), ret.employee,
                                     ret.date, ret.time_slot, ret.duration, ret.exclude_id)

\* C23: with a Confirmed or Pending row whose Time Slot is unparsable or whose
\* Duration is missing in the table, check_overlap completes without error and
\* answers from the well-formed rows alone, and get_available_slots returns a
\* list.
C23_MalformedRowsSkipped ==
    (ret.op \in {"check_overlap", "get_available_slots"} /\ HasMalformedRow(appointments))
        => SkipsMalformed

\* what does hold: app.check_overlap skips a row whose Time Slot does not
\* parse, whatever its Duration cell holds
C23_AppSkipsUnparsableSlot ==
    (/\ ret.op \in {"check_overlap", "get_available_slots"}
     /\ ret.impl = "app"
     /\ \A i \in 1..Len(appointments) :
            ~IsNa(appointments[i], "slot") /\ ParseHM(appointments[i].slot).ok
                => ~IsNa(appointments[i], "dur"))
        => SkipsMalformed

\* ---------------------------------------------------------------------------
\* bookings and later slot lists, one process
\* ---------------------------------------------------------------------------

\* booking_tab.get_available_slots: check_overlap reads load_appointments()
BookedSlotsTab ==
    \E k \in RowKeys, dur \in CallDurations :
        /\ ret' = CallRecord("get_available_slots", "tab", k[1], k[2], <<>>, dur, <<>>,
                             get_available_slots_tab(load_appointments.value, k[1], k[2], dur))
        /\ cache' = load_appointments.cache
        /\ UNCHANGED <<appointments, staff, leave, written, others>>

\* get_available_slots(appointments_df, ...) of app.py, appointments_df being
\* the load_csv("appointments.csv") of the script run
BookedSlotsApp ==
    \E k \in RowKeys, dur \in CallDurations :
        \E appointments_df \in {CachedCall("load_csv(appointments.csv)", appointments)} :
            /\ ret' = CallRecord("get_available_slots", "app", k[1], k[2], <<>>, dur, <<>>,
                                 get_available_slots_app(appointments_df.value, k[1], k[2], dur))
            /\ cache' = appointments_df.cache
            /\ UNCHANGED <<appointments, staff, leave, written, others>>

\* rows the bookings of this specification add up to
MaxBookedRows == 2

BookedPayloads ==
    {Row("Asha", 1, SlotLabel(9, 0), 60, "Confirmed"),
     Row("Asha", 1, SlotLabel(9, 30), 30, "Confirmed"),
     Row("Ravi", 1, SlotLabel(9, 0), 60, "Confirmed"),
     Row("Asha", 1, SlotLabel(10, 0), 30, "Cancelled")}

BookedSaveTab ==
    /\ Len(appointments) < MaxBookedRows
    /\ \E data \in BookedPayloads : save_booking_tab(data)

BookedSaveApp ==
    /\ Len(appointments) < MaxBookedRows
    /\ \E data \in BookedPayloads : save_booking_app(data)

NextBooked ==
    \/ BookedSaveTab
    \/ BookedSaveApp
    \/ BookedSlotsTab
    \/ BookedSlotsApp

SpecBooked == Init /\ [][NextBooked]_vars

\* the grid slots that start inside [slot, slot + dur)
StartsInside(slot, dur) ==
    {g \in GridLabels : Minutes(slot) <= Minutes(g) /\ Minutes(g) < Minutes(slot) + dur}

Offered == {ret.value[i] : i \in 1..Len(ret.value)}

\* the slot lists of both implementations for (e, d) are the same on t and u
SameSlots(t, u, e, d) ==
    \A dur \in CallDurations :
        /\ get_available_slots_tab(t, e, d, dur) = get_available_slots_tab(u, e, d, dur)
        /\ get_available_slots_app(t, e, d, dur) = get_available_slots_app(u, e, d, dur)

\* C24: once save_booking has stored a Confirmed appointment of positive
\* duration, every later get_available_slots call for its employee and date
\* with a positive duration leaves out its slot and every grid slot starting
\* inside its interval; the slot lists of every other employee or date are the
\* same before and after the booking.
C24_BookedSlotNotOffered ==
    /\ ret.op = "get_available_slots" =>
           /\ ~ret.raised
           /\ \A i \in 1..Len(appointments) :
                  (/\ appointments[i].status = "Confirmed"
                   /\ appointments[i].dur > 0
                   /\ appointments[i].emp = ret.employee
                   /\ appointments[i].date = ret.date
                   /\ ret.duration > 0)
                      => /\ appointments[i].slot \notin Offered
                         /\ StartsInside(appointments[i].slot, appointments[i].dur)
                                \cap Offered = {}
    /\ (ret.op = "save_booking" /\ ~ret.raised) =>
           \A k \in RowKeys :
               k /= <<ret.data.emp, ret.data.date>>
                   => SameSlots(Before(appointments), appointments, k[1], k[2])

\* C24 witness: a slot list asked for after an hour-long Confirmed booking at
\* 09:00 was stored lacks 09:00 and 09:30.
C24_Witness ==
    /\ ret.op = "get_available_slots"
    /\ ret.duration > 0
    /\ \E i \in 1..Len(appointments) :
           /\ appointments[i].status = "Confirmed"
           /\ appointments[i].emp = ret.employee
           /\ appointments[i].date = ret.date
           /\ appointments[i].slot = SlotLabel(9, 0)
           /\ appointments[i].dur = 60
    /\ "appointments" \in DOMAIN written
    /\ {SlotLabel(9, 0), SlotLabel(9, 30)} \cap Offered = {}
    /\ SlotLabel(10, 0) \in Offered

\* ---------------------------------------------------------------------------
\* cancelling and later slot lists
\* ---------------------------------------------------------------------------

\* rows of the stored tables cancelling starts from
MaxCancelRows == 2

\* stored rows before their identifier, none of them cancelled
CancelRows ==
    {Row("Asha", 1, SlotLabel(9, 0), 60, "Confirmed"),
     Row("Asha", 1, SlotLabel(9, 30), 30, "Pending"),
     Row("Ravi", 1, SlotLabel(9, 0), 60, "Confirmed")}

\* the stored tables: different bookings, numbered from APT1000
CancelTables ==
    UNION {{[i \in 1..n |-> WithId(f[i], i)] :
               f \in {g \in [1..n -> CancelRows] : \A a, b \in 1..n : a /= b => g[a] /= g[b]}}
              : n \in 0..MaxCancelRows}

InitCancel ==
    /\ appointments \in CancelTables
    /\ staff = <<>>
    /\ leave = <<>>
    /\ ret = [op |-> "none"]
    /\ NoOthers

NextCancel ==
    \/ CancelBooking
    \/ BookedSlotsTab

SpecCancel == InitCancel /\ [][NextCancel]_vars

\* the table without the appointment
Removed(t, id) == SelectSeq(t, LAMBDA r : r.id /= id)

\* a step of cancel_booking: the slot lists of the stored table are those of
\* the table without the appointment, and a second cancellation of the same id
\* changes nothing; a later get_available_slots call answers from the stored
\* table
CancelStep ==
    /\ ret'.op = "cancel_booking" =>
           /\ ~ret'.raised
           /\ \A k \in BookingKeys, dur \in CallDurations :
                  get_available_slots_tab(appointments', k[1], k[2], dur)
                      = get_available_slots_tab(Removed(appointments, ret'.value),
                                                k[1], k[2], dur)
           /\ (ret.op = "cancel_booking" /\ ret.value = ret'.value)
                  => appointments' = appointments
    /\ ret'.op = "get_available_slots" =>
           /\ ~ret'.raised
           /\ ret'.value = get_available_slots_tab(appointments, ret'.employee, ret'.date,
                                                   ret'.duration).value

\* C25: after cancel_booking(id) the available slots of every employee, date
\* and duration are those of the table with that appointment removed, and
\* cancel_booking applied twice to one id leaves the table it left the first
\* time.
C25_CancelFreesSlot == [][CancelStep]_vars

\* C25 witness: 09:00 is offered for the employee and date of a cancelled
\* hour-long 09:00 appointment.
C25_Witness ==
    /\ ret.op = "get_available_slots"
    /\ ret.duration = 60
    /\ SlotLabel(9, 0) \in Offered
    /\ \E i \in 1..Len(appointments) :
           /\ appointments[i].status = "Cancelled"
           /\ appointments[i].emp = ret.employee
           /\ appointments[i].date = ret.date
           /\ appointments[i].slot = SlotLabel(9, 0)
           /\ appointments[i].dur = 60

\* ---------------------------------------------------------------------------
\* the weekly queries
\* ---------------------------------------------------------------------------

\* The body shared by the weekly counts: the rows of the mask, counted by
\* distinct Phone Number (as text, NaN being "nan") and date, or by row when
\* the table has no Phone Number column.
WeekCount(df, days) ==
    IF Missing(df) \/ "Timestamp" \notin df.cols THEN Returns(0)
    ELSE LET subset == SelectSeq(WithTimestamp(df),
                                 LAMBDA r : r["Timestamp"] /= <<>> /\ r["Timestamp"][1].d \in days)
         IN  IF "Phone Number" \notin df.cols THEN Returns(Len(subset))
             ELSE Returns(Cardinality({<<PhoneStr(subset[i]["Phone Number"]),
                                         subset[i]["Timestamp"][1].d>> : i \in 1..Len(subset)}))

weekly_service_count(df, now) == WeekCount(df, SameWeek(now.d))

prev_week_service_count(df, now) ==
    LET prev == now.d - 7
    IN  WeekCount(df, SameWeek(prev))

WeeklyRows ==
    { ServiceRow(DateText("%Y-%m-%d %H:%M:%S", 1, 10), <<10>>, <<"X">>, <<"p1">>, <<"Asha">>),
      ServiceRow(DateText("%Y-%m-%d %H:%M:%S", 356, 10), <<40>>, <<"Y">>, <<"p2">>, <<"Asha">>),
      ServiceRow(DateText("%Y-%m-%d %H:%M:%S", 362, 10), <<50>>, <<"X">>, <<"p1">>, <<"Ravi">>),
      ServiceRow(DateText("%Y-%m-%d %H:%M:%S", 363, 10), <<100>>, <<"X">>, <<"p1">>, <<"Asha">>),
      ServiceRow(DateText("%Y-%m-%d %H:%M:%S", 365, 10), <<20>>, <<"Y">>, <<>>, <<"Asha">>),
      ServiceRow(DateText("not a date", 0, 0), <<70>>, <<"Y">>, <<"p2">>, <<"Ravi">>) }

\* the current moment: 2025-01-02, 2025-12-30 and 2026-01-01
WeeklyNows == {At(1, 12), At(363, 12), At(365, 12)}

InitWeekly ==
    /\ arg \in {[kind |-> "service", df |-> df, now |-> now, selected_month |-> ""]
                   : df \in TablesOf(ServiceCols, WeeklyRows), now \in WeeklyNows}
    /\ appointments = <<>>
    /\ staff = <<>>
    /\ leave = <<>>
    /\ ret = [op |-> "none"]
    /\ sessions = <<>>
    /\ cache = <<>>
    /\ written = <<>>
    /\ files = <<>>

WeeklyServiceCount ==
    /\ arg.kind = "service"
    /\ Query("weekly_service_count", weekly_service_count(arg.df, arg.now))

PrevWeekServiceCount ==
    /\ arg.kind = "service"
    /\ Query("prev_week_service_count", prev_week_service_count(arg.df, arg.now))

NextWeekly ==
    \/ WeeklyServiceSales
    \/ WeeklyServiceCount
    \/ PrevWeekServiceSales
    \/ PrevWeekServiceCount

SpecWeekly == InitWeekly /\ [][NextWeekly]_vars

\* the days of the Monday-to-Sunday week of a day (day 362, 2025-12-29, is a
\* Monday)
WeekOf(day) == {d \in Days : (d + 2 + 7) \div 7 = (day + 2 + 7) \div 7}

\* what the weekly query returns when its mask is the week of the current
\* moment, or the week before it
WeekAnswer ==
    CASE ret.op = "weekly_service_sales" -> PeriodSum(arg.df, WeekOf(arg.now.d))
      [] ret.op = "weekly_service_count" -> WeekCount(arg.df, WeekOf(arg.now.d))
      [] ret.op = "prev_week_service_sales" -> PeriodSum(arg.df, WeekOf(arg.now.d - 7))
      [] ret.op = "prev_week_service_count" -> WeekCount(arg.df, WeekOf(arg.now.d - 7))

WeeklyQueries ==
    {"weekly_service_sales", "weekly_service_count",
     "prev_week_service_sales", "prev_week_service_count"}

\* C26: the weekly queries answer from exactly the rows whose timestamp lies in
\* the Monday-to-Sunday week of the current moment (the week before it for the
\* prev_week queries), across a change of calendar year too.
C26_WeekOfNow ==
    ret.op \in WeeklyQueries =>
        /\ ret.raised = WeekAnswer.raised
        /\ ret.value = WeekAnswer.value

\* what does hold: the same when the week of the mask lies within one calendar
\* year and no other week of that year has its ISO number
C26_WithinOneYear ==
    (/\ ret.op \in WeeklyQueries
     /\ arg.now.d - (IF ret.op \in {"weekly_service_sales", "weekly_service_count"}
                     THEN 0 ELSE 7) \in {-6, 356, 358})
        => /\ ret.raised = WeekAnswer.raised
           /\ ret.value = WeekAnswer.value

\* ---------------------------------------------------------------------------
\* service_count
\* ---------------------------------------------------------------------------

\* the named service columns the model carries, of the ten of the source
ServiceNames == {"Waxing", "Facial"}

\* A flag cell holds the text astype(str) makes of the stored value: "True" and
\* "False" for booleans and for the texts 'True' and 'False', "nan" for NaN.
FlagStr(cell) == IF cell = <<>> THEN "nan" ELSE cell[1]

\* .str.strip().str.lower() of the flag texts of the model
Lower(text) ==
    CASE text = "True" -> "true" [] text = "False" -> "false" [] OTHER -> text

\* bool(x) != '': a bool is never equal to a str
BoolNeStr(b, text) == TRUE

\* The row filter of service_count.  Python reads
\* `notna() & astype(str).str.strip() != ''` as `(notna() & stripped) != ''`:
\* the text is cast to bool for `&` and the bool result is compared with ''.
Used(cell) ==
    \/ Lower(FlagStr(cell)) \in {"true", "1", "yes", "y"}
    \/ BoolNeStr(cell /= <<>> /\ FlagStr(cell) /= "", "")

\* Timestamp cells of this table are datetimes already (<<At(d, h)>> or NaT)
service_count(df, selected_month) ==
    IF Missing(df) THEN Returns(EmptyFrame)
    ELSE IF selected_month \notin {"", "All months"} /\ "Timestamp" \notin df.cols THEN Raises
    ELSE LET InMonth(r) == /\ r["Timestamp"] /= <<>>
                           /\ month_name(Calendar[r["Timestamp"][1].d].month) = selected_month
             rows == IF selected_month \notin {"", "All months"}
                     THEN SelectSeq(df.rows, InMonth) ELSE df.rows
             services_columns == ServiceNames \cap df.cols
             size(s) == Cardinality({i \in 1..Len(rows) : Used(rows[i][s])})
         IN  IF services_columns = {} THEN Returns(EmptyFrame)
             ELSE IF ~({"Name", "Timestamp"} \subseteq df.cols) THEN Raises
             ELSE Returns({[Service |-> s, count |-> size(s)] :
                              s \in {c \in services_columns : size(c) > 0}})

FlagCols == {"Name", "Timestamp"} \cup ServiceNames

FlagRow(d, waxing, facial) ==
    [c \in FlagCols |->
        CASE c = "Name" -> <<"X">>
          [] c = "Timestamp" -> IF d = 0 THEN <<>> ELSE <<At(d, 10)>>
          [] c = "Waxing" -> waxing
          [] OTHER -> facial]

\* flags as generate_service_data writes them and as a sheet may hold them
FlagCells == {<<"True">>, <<"False">>, <<"0">>, <<"no">>, <<"yes">>, <<>>}

FlagRows ==
    {FlagRow(363, w, f) : w \in FlagCells, f \in {<<"True">>, <<"False">>}}
        \cup {FlagRow(333, <<"True">>, <<"False">>), FlagRow(0, <<"True">>, <<"True">>)}

InitServices ==
    /\ arg \in {[kind |-> "flags", df |-> df, selected_month |-> m]
                   : df \in TablesOf(FlagCols, FlagRows), m \in Months}
    /\ appointments = <<>>
    /\ staff = <<>>
    /\ leave = <<>>
    /\ ret = [op |-> "none"]
    /\ sessions = <<>>
    /\ cache = <<>>
    /\ written = <<>>
    /\ files = <<>>

ServiceCount ==
    /\ arg.kind = "flags"
    /\ Query("service_count", service_count(arg.df, arg.selected_month))

NextServices ==
    \/ ServiceCount

SpecServices == InitServices /\ [][NextServices]_vars

\* the rows of the selected month (all rows when none is selected)
OfMonth ==
    IF arg.selected_month \in {"", "All months"} THEN arg.df.rows
    ELSE SelectSeq(arg.df.rows,
                   LAMBDA r : /\ r["Timestamp"] /= <<>>
                              /\ month_name(Calendar[r["Timestamp"][1].d].month)
                                     = arg.selected_month)

\* the count the result gives a service, 0 when it has no line
CountOf(frame, s) ==
    IF \E line \in frame : line.Service = s
    THEN (CHOOSE line \in frame : line.Service = s).count
    ELSE 0

FlagTrue(cell) == cell \in {<<"True">>, <<"yes">>}

\* a call on a table that has the columns service_count reads
ServiceCountCall ==
    /\ ret.op = "service_count"
    /\ ~Missing(arg.df)
    /\ FlagCols \subseteq arg.df.cols

\* C27: the count service_count gives a service is the number of rows (of the
\* selected month) whose flag for that service is true; a row whose flag is
\* False, '0' or 'no' adds nothing.
C27_CountsTrueFlags ==
    ServiceCountCall =>
        /\ ~ret.raised
        /\ \A s \in ServiceNames :
               CountOf(ret.value, s)
                   = Cardinality({i \in 1..Len(OfMonth) : FlagTrue(OfMonth[i][s])})

\* what does hold: every row of the month is counted for every service
C27_CountsEveryRow ==
    ServiceCountCall =>
        /\ ~ret.raised
        /\ \A s \in ServiceNames : CountOf(ret.value, s) = Len(OfMonth)

\* ---------------------------------------------------------------------------
\* the two implementations of the slot logic, side by side
\* ---------------------------------------------------------------------------

\* what the other implementation returns for the call recorded in ret
OtherAnswer ==
    CASE ret.op = "check_overlap" /\ ret.impl = "tab" ->
             check_overlap_app(appointments, ret.employee, ret.date, ret.time_slot,
                               ret.duration, ret.exclude_id)
      [] ret.op = "check_overlap" /\ ret.impl = "app" ->
             check_overlap_tab(appointments, ret.employee, ret.date, ret.time_slot,
                               ret.duration, ret.exclude_id)
      [] ret.op = "get_available_slots" /\ ret.impl = "tab" ->
             get_available_slots_app(appointments, ret.employee, ret.date, ret.duration)
      [] ret.op = "get_available_slots" /\ ret.impl = "app" ->
             get_available_slots_tab(appointments, ret.employee, ret.date, ret.duration)

SameAnswer == ret.raised = OtherAnswer.raised /\ ret.value = OtherAnswer.value

\* C28: on every table and every call, check_overlap of app.py and of
\* booking_tab.py return the same boolean or both fail, and the two
\* get_available_slots return the same list, also on an empty table and on a
\* table with a row whose time slot does not parse.
C28_SameAnswer ==
    ret.op \in {"check_overlap", "get_available_slots"} => SameAnswer

\* what does hold: the same on tables whose Confirmed and Pending rows are
\* well-formed
C28_SameOnWellFormed ==
    (ret.op \in {"check_overlap", "get_available_slots"} /\ ~HasMalformedRow(appointments))
        => SameAnswer

\* ---------------------------------------------------------------------------
\* how long a cached read is served
\* ---------------------------------------------------------------------------
\* No write goes through the system: the cache is never cleared and only time
\* passes between the reads of a page.

\* the stored catalogs and the attendance sheet
CatalogRows == <<[name |-> "Facial"]>>

load_attendance == CachedCall("load_attendance", CatalogRows)

load_services == CachedCall("load_services", CatalogRows)

load_employees == CachedCall("load_employees", CatalogRows)

load_branches == CachedCall("load_branches", CatalogRows)

\* a call of the cached function `key`: whether the cache answered, and how
\* old the entry it answered from was
ExpiryRead(op, key, call) ==
    /\ ret' = [op |-> op, cached |-> Fresh(key),
               age |-> IF Fresh(key) THEN cache[key].age ELSE 0, value |-> call.value]
    /\ cache' = call.cache
    /\ UNCHANGED <<appointments, staff, leave, written, others>>

ExpiryLoadAppointments ==
    /\ sessions.page = "bookings"
    /\ ExpiryRead("load_appointments", "load_appointments", load_appointments)

ExpiryLoadServices ==
    /\ sessions.page = "bookings"
    /\ ExpiryRead("load_services", "load_services", load_services)

ExpiryLoadEmployees ==
    /\ sessions.page = "bookings"
    /\ ExpiryRead("load_employees", "load_employees", load_employees)

ExpiryLoadStaff ==
    /\ sessions.page = "staff"
    /\ ExpiryRead("load_staff", "load_staff", load_staff)

ExpiryLoadLeaveRecords ==
    /\ sessions.page = "staff"
    /\ ExpiryRead("load_leave_records", "load_leave_records", load_leave_records)

ExpiryLoadAttendance ==
    /\ sessions.page = "staff"
    /\ ExpiryRead("load_attendance", "load_attendance", load_attendance)

ExpiryLoadBranches ==
    /\ sessions.page = "staff"
    /\ ExpiryRead("load_branches", "load_branches", load_branches)

ExpiryLoadCsv ==
    /\ sessions.page = "app"
    /\ ExpiryRead("load_csv", "load_csv(appointments.csv)", load_csv)

ExpiryGetSheetData ==
    /\ sessions.page = "sheets"
    /\ ExpiryRead("get_sheet_data", "get_sheet_data", get_sheet_data)

NextExpiry ==
    \/ ExpiryLoadAppointments
    \/ ExpiryLoadServices
    \/ ExpiryLoadEmployees
    \/ ExpiryLoadStaff
    \/ ExpiryLoadLeaveRecords
    \/ ExpiryLoadAttendance
    \/ ExpiryLoadBranches
    \/ ExpiryLoadCsv
    \/ ExpiryGetSheetData
    \/ Tick

SpecExpiry == InitCache /\ [][NextExpiry]_vars

Loaders ==
    {"load_csv", "get_sheet_data", "load_appointments", "load_staff", "load_leave_records",
     "load_attendance", "load_services", "load_employees", "load_branches"}

\* the read was not answered from an entry stored ttl or more ago
TimeBoxed == ret.cached => ret.age < ttl

\* C29: no loader returns a value that was cached 60 or more time units
\* earlier without reading the store again, writes or no writes.
C29_ReadsTimeBoxed == ret.op \in Loaders => TimeBoxed

\* what does hold: the same for the loaders declared with ttl=60
C29_TtlLoadersTimeBoxed == ret.op \in Loaders \ NoTtl => TimeBoxed

\* ---------------------------------------------------------------------------
\* the booking form of app.py when the write can fail
\* ---------------------------------------------------------------------------

\* app.save_booking(appointments_df, data) with the outcome of the to_csv
\* inside save_csv: save_csv catches the failure and returns False, save_booking
\* drops that result and returns new_id, and the form shows st.success
save_booking_app_outcome(data, outcome, left) ==
    \E ap \in {Cached("load_csv(appointments.csv)", appointments)} :
       \E new_id \in {save_booking_app_new_id(ap)} :
          /\ ret' = [op |-> "save_booking", impl |-> "app", data |-> data, raised |-> FALSE,
                     value |-> new_id.value, outcome |-> outcome, saved |-> outcome = "ok",
                     confirmed |-> TRUE, before |-> appointments]
          /\ CASE outcome = "ok" ->
                     WriteAppointments(Append(ap, AppointmentRow(new_id.value, data)))
               [] outcome = "refused" ->
                     /\ cache' = Filled("load_csv(appointments.csv)", appointments)
                     /\ UNCHANGED <<appointments, written>>
               [] outcome = "torn" ->
                     /\ appointments' = read_csv(to_csv(left))
                     /\ written' = Without(written, "appointments")
                     /\ cache' = Filled("load_csv(appointments.csv)", appointments)
          /\ UNCHANGED <<staff, leave, others>>

\* the new_booking_form of app.py, submitted with an offered slot
OutcomeFormApp ==
    /\ Len(appointments) < MaxBookedRows
    /\ \E k \in BookingKeys, duration \in {30, 60}, outcome \in WriteOutcomes :
         \E ap \in {Cached("load_csv(appointments.csv)", appointments)} :
           \E available_slots \in {get_available_slots_app(ap, k[1], k[2], duration)} :
              /\ ~available_slots.raised
              /\ \E i \in 1..Len(available_slots.value) :
                    /\ available_slots.value[i] \in FormSlots
                    /\ \E data \in {Row(k[1], k[2], available_slots.value[i], duration,
                                         "Confirmed")} :
                         \E left \in Torn(Append(ap, AppointmentRow(
                                         save_booking_app_new_id(ap).value, data))) :
                            save_booking_app_outcome(data, outcome, left)

NextOutcome ==
    \/ OutcomeFormApp

SpecOutcome == Init /\ [][NextOutcome]_vars

HasId(t, id) == \E i \in 1..Len(t) : t[i].id = id

\* C30: when the write of the appointments table fails, save_booking does not
\* return the generated id as a result, no booking confirmation is shown and
\* the stored table has no row with that id.
C30_ConfirmedOnlyIfPersisted ==
    (ret.op = "save_booking" /\ ret.outcome /= "ok") =>
        /\ ret.raised
        /\ ~ret.confirmed
        /\ ~HasId(appointments, ret.value)

\* what does hold: the row is stored when the write succeeds, and no row with
\* the new id is stored when the write fails
C30_StoredIffWritten ==
    ret.op = "save_booking" =>
        (HasId(appointments, ret.value) <=> ret.outcome = "ok" \/ HasId(ret.before, ret.value))

====
